---------------------------- MODULE Spec2Model ----------------------------
(***************************************************************************)
(* Streaming indicators of ta-numba and the bulk functions they are        *)
(* compared with.                                                          *)
(*                                                                         *)
(* One indicator instance is constructed in Init (its class and window are *)
(* chosen there) and is then driven by update and reset calls.             *)
(*                                                                         *)
(* Numbers.  A Python float is modelled by an exact extended rational      *)
(* <<n, d>>: d > 0 and gcd(n, d) = 1 for a finite number, <<0, 0>> for     *)
(* NaN, <<1, 0>> for +inf and <<-1, 0>> for -inf.  Arithmetic follows IEEE *)
(* 754 for the special values (x/0 is an infinity, 0/0 and inf-inf are     *)
(* NaN, every comparison with NaN is false except !=).  Rounding and the   *)
(* sign of zero are not modelled.  A rational n/d stands for the double    *)
(* nearest to it, which is n/d itself when d is a power of two.  Where the *)
(* code branches on a computed quantity being 0, the model decides the     *)
(* branch only when the doubles are known to decide it as the rationals    *)
(* do; otherwise the result is kept as a term named ..._rounding and the   *)
(* branch is left undecided.  The closes of the log-return classes are     *)
(* taken to be doubles, so that equal quotients are equal doubles.         *)
(***************************************************************************)
EXTENDS Integers, Sequences, FiniteSets, TLC

(***************************************************************************)
(* Bounds of the model.                                                    *)
(***************************************************************************)
MaxWindow == 3
MaxTicks == 4
MaxResets == 1

(***************************************************************************)
(* Extended rational arithmetic (Python float / numpy float64).            *)
(***************************************************************************)
NaN == <<0, 0>>
PosInf == <<1, 0>>
NegInf == <<-1, 0>>

Abs(i) == IF i < 0 THEN -i ELSE i

Sign(i) == IF i < 0 THEN -1 ELSE IF i > 0 THEN 1 ELSE 0

RECURSIVE GCD(_, _)
GCD(a, b) == IF b = 0 THEN a ELSE GCD(b, a % b)

Norm(n, d) ==
    IF d = 0 THEN <<Sign(n), 0>>
    ELSE LET g == GCD(Abs(n), Abs(d))
             s == IF d < 0 THEN -1 ELSE 1
         IN  <<(s * n) \div g, (s * d) \div g>>

Num(i) == <<i, 1>>

Zero == Num(0)
One == Num(1)

IsNaN(x) == x = NaN

IsFinite(x) == x[2] > 0

Mul(x, y) == Norm(x[1] * y[1], x[2] * y[2])

Inv(x) == Norm(x[2], x[1])

Div(x, y) == Mul(x, Inv(y))

Add(x, y) ==
    IF x[2] = 0 /\ y[2] = 0
    THEN (IF x = y THEN x ELSE NaN)
    ELSE Norm(x[1] * y[2] + y[1] * x[2], x[2] * y[2])

Neg(x) == <<-x[1], x[2]>>

Sub(x, y) == Add(x, Neg(y))

\* x < y
Lt(x, y) ==
    /\ ~IsNaN(x)
    /\ ~IsNaN(y)
    /\ IF x[2] = 0 /\ y[2] = 0 THEN x[1] < y[1]
       ELSE x[1] * y[2] < y[1] * x[2]

\* x == y
Eq(x, y) == ~IsNaN(x) /\ ~IsNaN(y) /\ x = y

\* x != y
Neq(x, y) == ~Eq(x, y)

\* x <= y
Le(x, y) == Eq(x, y) \/ Lt(x, y)

\* x > y
Gt(x, y) == Lt(y, x)

(***************************************************************************)
(* Rationals and the doubles they stand for.                               *)
(***************************************************************************)
\* the outcome of a bulk call that raises exception e instead of returning:
\* a one-element sequence holding the name, which no array of numbers equals
Raises(e) == <<<<e>>>>

RECURSIVE IsPowerOfTwo(_)
IsPowerOfTwo(d) == d = 1 \/ (d > 1 /\ d % 2 = 0 /\ IsPowerOfTwo(d \div 2))

\* a rational that is a double (its numerator has fewer than 53 bits)
IsDouble(x) == IsFinite(x) /\ IsPowerOfTwo(x[2])

\* numerator and denominator of at most `bits` bits
IsShort(x, bits) == IsFinite(x) /\ Abs(x[1]) <= 2^bits /\ x[2] <= 2^bits

\* different rationals whose nearest doubles are known to differ: both are
\* doubles, or they are short enough to differ by more than 2^-50 of their size
DoublesDiffer(x, y) ==
    /\ x # y
    /\ (IsDouble(x) /\ IsDouble(y)) \/ (IsShort(x, 25) /\ IsShort(y, 25))

\* the doubles do not decide `std != 0` of a window of finite numbers as the
\* rationals do.  Equal values: sum / n is the value itself for n <= 2 and
\* for values that are doubles (with fastmath, where the division may be
\* compiled to a product with 1 / n, for n <= 4), and may differ from it in
\* the last bit otherwise.  Different values: they may be the same double.
StdUndecided(arr, fastmath) ==
    /\ \A i \in 1..Len(arr) : IsFinite(arr[i])
    /\ IF \A i \in 1..Len(arr) : arr[i] = arr[1]
       THEN Len(arr) > 2 /\ (~IsDouble(arr[1]) \/ (fastmath /\ Len(arr) > 4))
       ELSE ~\E i, j \in 1..Len(arr) : DoublesDiffer(arr[i], arr[j])

(***************************************************************************)
(* np.log / np.exp.  The logarithm of q is kept as the record [ln |-> q]:  *)
(* adding two logarithms multiplies their arguments, and exp returns the   *)
(* argument.  log(0) = -inf is [ln |-> 0], log(+inf) = +inf is             *)
(* [ln |-> +inf], and the logarithm of a negative number or of NaN is NaN, *)
(* [ln |-> NaN]; (-inf) + (+inf) = NaN falls out of 0 * inf = NaN.         *)
(***************************************************************************)
np_log(x) == IF IsNaN(x) \/ Lt(x, Zero) THEN [ln |-> NaN] ELSE [ln |-> x]

np_exp(l) == l.ln

LogZero == [ln |-> One]

LogAdd(a, b) == [ln |-> Mul(a.ln, b.ln)]

(***************************************************************************)
(* numpy reductions over a one-dimensional array (a sequence).             *)
(***************************************************************************)
RECURSIVE np_sum(_)
np_sum(arr) == IF arr = <<>> THEN Zero ELSE Add(np_sum(SubSeq(arr, 1, Len(arr) - 1)), arr[Len(arr)])

np_mean(arr) == Div(np_sum(arr), Num(Len(arr)))

\* mean of the squared deviations from the mean (ddof = 0)
np_var(arr) ==
    LET m == np_mean(arr)
    IN  np_mean([j \in 1..Len(arr) |-> Mul(Sub(arr[j], m), Sub(arr[j], m))])

\* np.maximum / np.minimum of two numbers: NaN if either is NaN
np_maximum(a, b) == IF IsNaN(a) \/ IsNaN(b) THEN NaN ELSE IF Lt(a, b) THEN b ELSE a

np_minimum(a, b) == IF IsNaN(a) \/ IsNaN(b) THEN NaN ELSE IF Lt(b, a) THEN b ELSE a

\* np.max / np.min of a non-empty array
RECURSIVE np_max(_)
np_max(arr) ==
    IF Len(arr) = 1 THEN arr[1]
    ELSE np_maximum(np_max(SubSeq(arr, 1, Len(arr) - 1)), arr[Len(arr)])

RECURSIVE np_min(_)
np_min(arr) ==
    IF Len(arr) = 1 THEN arr[1]
    ELSE np_minimum(np_min(SubSeq(arr, 1, Len(arr) - 1)), arr[Len(arr)])

np_maximum_accumulate(arr) == [i \in 1..Len(arr) |-> np_max(SubSeq(arr, 1, i))]

\* abs(x)
FAbs(x) == <<Abs(x[1]), x[2]>>

(***************************************************************************)
(* np.sqrt / np.std.  A square root is kept as the record [sqrt |-> v] of  *)
(* its radicand.  The quotient a / sqrt(v) is recorded on the signed       *)
(* square scale, sign(a) * a^2 / v: the map x |-> sign(x) * x^2 is a       *)
(* bijection of the reals that keeps order, 0, the infinities and NaN, so  *)
(* two quotients are equal exactly when their records are.                 *)
(***************************************************************************)
np_sqrt(v) == [sqrt |-> v]

np_std(arr) == np_sqrt(np_var(arr))

SqrtNeqZero(r) == Neq(r.sqrt, Zero)

DivBySqrt(a, r) == Mul(Num(Sign(a[1])), Div(Mul(a, a), r.sqrt))

(***************************************************************************)
(* A rational plus a rational multiple of a square root, a + c * sqrt(v),  *)
(* is kept as the tuple <<"surd", a, c, v>>.                               *)
(***************************************************************************)
\* k * r for a square root r.  When k or the radicand is not finite, or the
\* radicand is negative, the product is the number floating point gives:
\* the square root of NaN or of a negative number is NaN, that of +inf is
\* +inf, and the product follows the rules of Mul.
MulSqrt(k, r) ==
    IF IsFinite(k) /\ IsFinite(r.sqrt) /\ Le(Zero, r.sqrt)
    THEN <<"surd", Zero, k, r.sqrt>>
    ELSE IF IsNaN(r.sqrt) \/ Lt(r.sqrt, Zero) THEN NaN
    ELSE Mul(k, r.sqrt)

\* a + t and a - t for a number a and a product t of MulSqrt or a surd: a
\* surd when both are finite, and the sum or difference of numbers otherwise
AddSurd(a, t) ==
    IF Len(t) = 2 THEN Add(a, t)
    ELSE IF ~IsFinite(a) THEN a
    ELSE <<"surd", Add(a, t[2]), t[3], t[4]>>

SubSurd(a, t) ==
    IF Len(t) = 2 THEN Sub(a, t)
    ELSE IF ~IsFinite(a) THEN a
    ELSE <<"surd", Sub(a, t[2]), Neg(t[3]), t[4]>>

\* the sign (-1, 0, 1) of a + c * sqrt(v), for finite a, c and v >= 0
SurdSign(t) ==
    LET a == t[2]
        c == t[3]
        v == t[4]
        sa == Sign(a[1])
        sc == IF v = Zero THEN 0 ELSE Sign(c[1])
        a2 == Mul(a, a)
        c2v == Mul(Mul(c, c), v)
    IN  IF sc = 0 THEN sa
        ELSE IF sa = 0 \/ sa = sc THEN sc
        ELSE IF Lt(c2v, a2) THEN sa
        ELSE IF a2 = c2v THEN 0
        ELSE sc

(***************************************************************************)
(* Statistics of logarithms.  The mean and the standard deviation of       *)
(* logarithms of rationals are in general not rational; such a result is   *)
(* kept as a term: a tuple of at least three elements that starts with the *)
(* name of the quantity and lists the arguments it was computed from.  Two *)
(* terms are equal when name and arguments are.  np.std(a, ddof=1) is NaN  *)
(* for a single element (0/0) and whenever an element is NaN or infinite   *)
(* (the mean is, and inf - inf is NaN).  Of equal finite elements it is    *)
(* exactly 0 when there are two of them ((x + x) / 2 is x) or when they    *)
(* are 0; three or more equal non-zero logarithms have a mean that may     *)
(* differ from them in the last bit, so the result is 0 or a residue of    *)
(* the order of 1e-17: the term std_ddof1_rounding, whose sign is not      *)
(* decided.  Of elements that differ it is positive when two of the        *)
(* computed logarithms are known to differ: quotients n/d with n and d of  *)
(* at most 22 bits differ by more than 2^-44 of their size, and so do      *)
(* their logarithms, which are below 16 and computed to 2^-49.  Longer     *)
(* quotients may give the same double (2^27 / (2^27 - 1) and               *)
(* (2^27 + 1) / 2^27 do), and the result is again std_ddof1_rounding.      *)
(***************************************************************************)
IsTerm(x) == Len(x) > 2

\* a finite logarithm: of a finite number > 0
IsFiniteLog(l) == IsFinite(l.ln) /\ Gt(l.ln, Zero)

\* np.std(returns_array, ddof=1) of an array of logarithms
np_std_ddof1_log(arr) ==
    IF Len(arr) < 2 THEN NaN
    ELSE IF \E i \in 1..Len(arr) : ~IsFiniteLog(arr[i]) THEN NaN
    ELSE IF \A i \in 1..Len(arr) : arr[i] = arr[1]
    THEN IF Len(arr) = 2 \/ arr[1].ln = One
         THEN Zero
         ELSE <<"std_ddof1_rounding", [i \in 1..Len(arr) |-> arr[i].ln], 1>>
    ELSE IF \E i, j \in 1..Len(arr) :
                /\ arr[i] # arr[j]
                /\ IsShort(arr[i].ln, 22) /\ IsShort(arr[j].ln, 22)
    THEN <<"std_ddof1", [i \in 1..Len(arr) |-> arr[i].ln], 1>>
    ELSE <<"std_ddof1_rounding", [i \in 1..Len(arr) |-> arr[i].ln], 1>>

\* a standard deviation that the doubles decide: 0 or positive
IsResidue(x) == IsTerm(x) /\ x[1] = "std_ddof1_rounding"

\* np.log(q) * 100.0
LogTimes100(l) ==
    IF IsNaN(l.ln) THEN NaN
    ELSE IF l.ln = One THEN Zero
    ELSE IF l.ln = Zero THEN NegInf
    ELSE IF l.ln = PosInf THEN PosInf
    ELSE <<"log_pct", l.ln, 100>>

(***************************************************************************)
(* collections.deque(maxlen=...).append                                    *)
(***************************************************************************)
\* a mutation: a deque that never evicts
Mut_deque_append(buf, x, maxlen) ==
    IF maxlen = 0 THEN <<>>
    ELSE Append(buf, x)

deque_append(buf, x, maxlen) ==
    IF maxlen = 0 THEN <<>>
    ELSE IF Len(buf) >= maxlen THEN Append(Tail(buf), x)
    ELSE Append(buf, x)

(***************************************************************************)
(* streaming/base.py: StreamingIndicator.  The base class is not part of   *)
(* the sources at hand; its constructor and reset are modelled from the    *)
(* specification (sections 3 and 6) and from the way the subclasses use    *)
(* window, buffer, _is_ready, _current_value and _update_count.            *)
(***************************************************************************)
StreamingIndicator_init(window) ==
    [window |-> window,
     buffer |-> <<>>,
     is_ready |-> FALSE,
     current_value |-> NaN,
     update_count |-> 0]

\* reset() of the base class: it knows the fields of the base class only
StreamingIndicator_reset(s) ==
    [s EXCEPT !.buffer = <<>>,
              !.is_ready = FALSE,
              !.current_value = NaN,
              !.update_count = 0]

(***************************************************************************)
(* streaming/others.py: DailyReturnStreaming                               *)
(***************************************************************************)
DailyReturnStreaming_init ==
    StreamingIndicator_init(1) @@ [prev_close |-> NaN]

\* mutant: the change is divided by the new close instead of the previous one
Mut_DailyReturnStreaming_update(s, close) ==
    LET s1 == [s EXCEPT !.update_count = s.update_count + 1] IN
    IF s1.update_count = 1
    THEN [s1 EXCEPT !.prev_close = close]
    ELSE LET s2 == IF Neq(s1.prev_close, Zero)
                   THEN [s1 EXCEPT !.current_value =
                                      Mul(Div(Sub(close, s1.prev_close), close), Num(100)),
                                   !.is_ready = TRUE]
                   ELSE s1
         IN  [s2 EXCEPT !.prev_close = close]

DailyReturnStreaming_update(s, close) ==
    LET s1 == [s EXCEPT !.update_count = s.update_count + 1] IN
    IF s1.update_count = 1
    THEN [s1 EXCEPT !.prev_close = close]
    ELSE LET s2 == IF Neq(s1.prev_close, Zero)
                   THEN [s1 EXCEPT !.current_value =
                                      Mul(Div(Sub(close, s1.prev_close), s1.prev_close), Num(100)),
                                   !.is_ready = TRUE]
                   ELSE s1
         IN  [s2 EXCEPT !.prev_close = close]

(***************************************************************************)
(* streaming/others.py: DailyLogReturnStreaming                            *)
(***************************************************************************)
DailyLogReturnStreaming_init ==
    StreamingIndicator_init(1) @@ [prev_close |-> NaN]

\* mutant: prev_close is stored only on the first tick and on ticks whose
\* log return was computed
Mut_DailyLogReturnStreaming_update(s, close) ==
    LET s1 == [s EXCEPT !.update_count = s.update_count + 1] IN
    IF s1.update_count = 1
    THEN [s1 EXCEPT !.prev_close = close]
    ELSE IF Gt(s1.prev_close, Zero) /\ Gt(close, Zero)
         THEN [s1 EXCEPT !.current_value =
                            LogTimes100(np_log(Div(close, s1.prev_close))),
                         !.is_ready = TRUE,
                         !.prev_close = close]
         ELSE s1

DailyLogReturnStreaming_update(s, close) ==
    LET s1 == [s EXCEPT !.update_count = s.update_count + 1] IN
    IF s1.update_count = 1
    THEN [s1 EXCEPT !.prev_close = close]
    ELSE LET s2 == IF Gt(s1.prev_close, Zero) /\ Gt(close, Zero)
                   THEN [s1 EXCEPT !.current_value =
                                      LogTimes100(np_log(Div(close, s1.prev_close))),
                                   !.is_ready = TRUE]
                   ELSE s1
         IN  [s2 EXCEPT !.prev_close = close]

(***************************************************************************)
(* streaming/others.py: CumulativeReturnStreaming                          *)
(***************************************************************************)
CumulativeReturnStreaming_init ==
    StreamingIndicator_init(1) @@ [initial_price |-> NaN]

Mut_CumulativeReturnStreaming_update(s, close) ==
    LET s1 == [s EXCEPT !.update_count = s.update_count + 1] IN
    IF s1.update_count = 1
    THEN [s1 EXCEPT !.initial_price = close,
                    !.current_value = Zero,
                    !.is_ready = TRUE]
    ELSE IF Neq(s1.initial_price, Zero)
    THEN [s1 EXCEPT !.current_value =
                       Mul(Sub(Div(close, s1.initial_price), One), Num(100)),
                    !.initial_price = close]
    ELSE s1

CumulativeReturnStreaming_update(s, close) ==
    LET s1 == [s EXCEPT !.update_count = s.update_count + 1] IN
    IF s1.update_count = 1
    THEN [s1 EXCEPT !.initial_price = close,
                    !.current_value = Zero,
                    !.is_ready = TRUE]
    ELSE IF Neq(s1.initial_price, Zero)
    THEN [s1 EXCEPT !.current_value =
                       Mul(Sub(Div(close, s1.initial_price), One), Num(100))]
    ELSE s1

(***************************************************************************)
(* streaming/others.py: CompoundLogReturnStreaming                         *)
(***************************************************************************)
CompoundLogReturnStreaming_init ==
    StreamingIndicator_init(1) @@ [cumulative_log_return |-> LogZero, prev_close |-> NaN]

CompoundLogReturnStreaming_update(s, close) ==
    LET s1 == [s EXCEPT !.update_count = s.update_count + 1]
        s2 == IF s1.update_count = 1
              THEN [s1 EXCEPT !.prev_close = close,
                              !.current_value = Zero,
                              !.is_ready = TRUE]
              ELSE IF Gt(s1.prev_close, Zero) /\ Gt(close, Zero)
                   THEN LET log_return == np_log(Div(close, s1.prev_close))
                            cum == LogAdd(s1.cumulative_log_return, log_return)
                        IN  [s1 EXCEPT !.cumulative_log_return = cum,
                                       !.current_value = Mul(Sub(np_exp(cum), One), Num(100))]
                   ELSE s1
    IN  [s2 EXCEPT !.prev_close = close]

(***************************************************************************)
(* streaming/others.py: RollingReturnStreaming                             *)
(***************************************************************************)
RollingReturnStreaming_init(window) ==
    StreamingIndicator_init(window) @@ [close_buffer |-> <<>>]

RollingReturnStreaming_update(s, close) ==
    LET s1 == [s EXCEPT !.update_count = s.update_count + 1,
                        !.close_buffer = deque_append(s.close_buffer, close, s.window)]
    IN  IF Len(s1.close_buffer) >= s1.window
        THEN LET start_price == s1.close_buffer[1]
                 end_price == s1.close_buffer[Len(s1.close_buffer)]
             IN  [s1 EXCEPT !.current_value =
                                IF Neq(start_price, Zero)
                                THEN Mul(Div(Sub(end_price, start_price), start_price), Num(100))
                                ELSE Zero,
                            !.is_ready = TRUE]
        ELSE s1

(***************************************************************************)
(* streaming/others.py: RollingZScoreStreaming                             *)
(***************************************************************************)
RollingZScoreStreaming_init(window) == StreamingIndicator_init(window)

RollingZScoreStreaming_update(s, value) ==
    LET s1 == [s EXCEPT !.update_count = s.update_count + 1,
                        !.buffer = deque_append(s.buffer, value, s.window)]
    IN  IF Len(s1.buffer) >= s1.window
        THEN LET buffer_array == s1.buffer
                 mean == np_mean(buffer_array)
                 std == np_std(buffer_array)
             IN  [s1 EXCEPT !.current_value =
                                IF StdUndecided(buffer_array, FALSE)
                                THEN <<"zscore_rounding", buffer_array, value>>
                                ELSE IF SqrtNeqZero(std)
                                THEN DivBySqrt(Sub(value, mean), std)
                                ELSE Zero,
                            !.is_ready = TRUE]
        ELSE s1

(***************************************************************************)
(* streaming/others.py: LinearRegressionSlopeStreaming                     *)
(***************************************************************************)
\* mutant: sum_x is taken over x = 1..window, sum_x2 over x = 0..window-1
Mut_LinearRegressionSlopeStreaming_init(window) ==
    LET w == window
        sum_x == Div(Num(w * (w + 1)), Num(2))
        sum_x2 == Div(Num(w * (w - 1) * (2 * w - 1)), Num(6))
    IN  StreamingIndicator_init(window) @@
        [sum_x |-> sum_x,
         sum_x2 |-> sum_x2,
         denom |-> Sub(Mul(Num(w), sum_x2), Mul(sum_x, sum_x))]

LinearRegressionSlopeStreaming_init(window) ==
    LET w == window
        sum_x == Div(Num(w * (w - 1)), Num(2))
        sum_x2 == Div(Num(w * (w - 1) * (2 * w - 1)), Num(6))
    IN  StreamingIndicator_init(window) @@
        [sum_x |-> sum_x,
         sum_x2 |-> sum_x2,
         denom |-> Sub(Mul(Num(w), sum_x2), Mul(sum_x, sum_x))]

\* mutant: the time index of the oldest retained input is 1 instead of 0
Mut_LinearRegressionSlopeStreaming_update(s, value) ==
    LET s1 == [s EXCEPT !.update_count = s.update_count + 1,
                        !.buffer = deque_append(s.buffer, value, s.window)]
    IN  IF Len(s1.buffer) >= s1.window /\ Neq(s1.denom, Zero)
        THEN LET buffer_array == s1.buffer
                 sum_y == np_sum(buffer_array)
                 sum_xy == np_sum([j \in 1..s1.window |-> Mul(Num(j), buffer_array[j])])
             IN  [s1 EXCEPT !.current_value =
                                Div(Sub(Mul(Num(s1.window), sum_xy), Mul(s1.sum_x, sum_y)),
                                    s1.denom),
                            !.is_ready = TRUE]
        ELSE s1

LinearRegressionSlopeStreaming_update(s, value) ==
    LET s1 == [s EXCEPT !.update_count = s.update_count + 1,
                        !.buffer = deque_append(s.buffer, value, s.window)]
    IN  IF Len(s1.buffer) >= s1.window /\ Neq(s1.denom, Zero)
        THEN LET buffer_array == s1.buffer
                 sum_y == np_sum(buffer_array)
                 \* j runs over range(window); buffer_array[j] is element j + 1
                 sum_xy == np_sum([j \in 1..s1.window |-> Mul(Num(j - 1), buffer_array[j])])
             IN  [s1 EXCEPT !.current_value =
                                Div(Sub(Mul(Num(s1.window), sum_xy), Mul(s1.sum_x, sum_y)),
                                    s1.denom),
                            !.is_ready = TRUE]
        ELSE s1

(***************************************************************************)
(* streaming/others.py: RollingPercentileStreaming                         *)
(***************************************************************************)
RollingPercentileStreaming_init(window) == StreamingIndicator_init(window)

\* mutant: counts the values strictly below the current one
Mut_RollingPercentileStreaming_update(s, value) ==
    LET s1 == [s EXCEPT !.update_count = s.update_count + 1,
                        !.buffer = deque_append(s.buffer, value, s.window)]
    IN  IF Len(s1.buffer) >= s1.window
        THEN LET buffer_array == s1.buffer
                 count == Cardinality({j \in 1..Len(buffer_array) : Lt(buffer_array[j], value)})
             IN  [s1 EXCEPT !.current_value = Div(Num(count), Num(s1.window)),
                            !.is_ready = TRUE]
        ELSE s1

RollingPercentileStreaming_update(s, value) ==
    LET s1 == [s EXCEPT !.update_count = s.update_count + 1,
                        !.buffer = deque_append(s.buffer, value, s.window)]
    IN  IF Len(s1.buffer) >= s1.window
        THEN LET buffer_array == s1.buffer
                 count == Cardinality({j \in 1..Len(buffer_array) : Le(buffer_array[j], value)})
             IN  [s1 EXCEPT !.current_value = Div(Num(count), Num(s1.window)),
                            !.is_ready = TRUE]
        ELSE s1

(***************************************************************************)
(* streaming/others.py: VolatilityStreaming                                *)
(***************************************************************************)
VolatilityStreaming_init(window, annualize) ==
    StreamingIndicator_init(window) @@
    [annualize |-> annualize, prev_close |-> NaN, returns_buffer |-> <<>>]

\* a mutation: a tick without a log return sets the output to NaN
Mut_VolatilityStreaming_update(s, close) ==
    LET s1 == [s EXCEPT !.update_count = s.update_count + 1] IN
    IF s1.update_count = 1
    THEN [s1 EXCEPT !.prev_close = close]
    ELSE LET s2 ==
               IF Gt(s1.prev_close, Zero) /\ Gt(close, Zero)
               THEN LET log_return == np_log(Div(close, s1.prev_close))
                        s3 == [s1 EXCEPT !.returns_buffer =
                                  deque_append(s1.returns_buffer, log_return, s1.window)]
                    IN  IF Len(s3.returns_buffer) >= s3.window
                        THEN LET returns_array == s3.returns_buffer
                                 volatility == np_std_ddof1_log(returns_array)
                             IN  [s3 EXCEPT !.current_value =
                                                IF IsResidue(volatility)
                                                THEN <<"volatility_pct_rounding",
                                                       volatility[2], s3.annualize>>
                                                ELSE IF IsTerm(volatility)
                                                THEN <<"volatility_pct", volatility[2],
                                                       s3.annualize>>
                                                ELSE Mul(volatility, Num(100)),
                                            !.is_ready = TRUE]
                        ELSE s3
               ELSE [s1 EXCEPT !.current_value = NaN]
         IN  [s2 EXCEPT !.prev_close = close]

\* a mutation: the first close counted as a return, ready one update early
Mut_VolatilityStreaming_update_early(s, close) ==
    LET s1 == [s EXCEPT !.update_count = s.update_count + 1] IN
    IF s1.update_count = 1
    THEN [s1 EXCEPT !.prev_close = close]
    ELSE LET s2 ==
               IF Gt(s1.prev_close, Zero) /\ Gt(close, Zero)
               THEN LET log_return == np_log(Div(close, s1.prev_close))
                        s3 == [s1 EXCEPT !.returns_buffer =
                                  deque_append(s1.returns_buffer, log_return, s1.window)]
                    IN  IF s3.update_count >= s3.window
                        THEN LET returns_array == s3.returns_buffer
                                 volatility == np_std_ddof1_log(returns_array)
                             IN  [s3 EXCEPT !.current_value =
                                                IF IsResidue(volatility)
                                                THEN <<"volatility_pct_rounding",
                                                       volatility[2], s3.annualize>>
                                                ELSE IF IsTerm(volatility)
                                                THEN <<"volatility_pct", volatility[2],
                                                       s3.annualize>>
                                                ELSE Mul(volatility, Num(100)),
                                            !.is_ready = TRUE]
                        ELSE s3
               ELSE s1
         IN  [s2 EXCEPT !.prev_close = close]

VolatilityStreaming_update(s, close) ==
    LET s1 == [s EXCEPT !.update_count = s.update_count + 1] IN
    IF s1.update_count = 1
    THEN [s1 EXCEPT !.prev_close = close]
    ELSE LET s2 ==
               IF Gt(s1.prev_close, Zero) /\ Gt(close, Zero)
               THEN LET log_return == np_log(Div(close, s1.prev_close))
                        s3 == [s1 EXCEPT !.returns_buffer =
                                  deque_append(s1.returns_buffer, log_return, s1.window)]
                    IN  IF Len(s3.returns_buffer) >= s3.window
                        THEN LET returns_array == s3.returns_buffer
                                 volatility == np_std_ddof1_log(returns_array)
                             IN  [s3 EXCEPT !.current_value =
                                                IF IsResidue(volatility)
                                                THEN <<"volatility_pct_rounding",
                                                       volatility[2], s3.annualize>>
                                                ELSE IF IsTerm(volatility)
                                                THEN <<"volatility_pct", volatility[2],
                                                       s3.annualize>>
                                                ELSE Mul(volatility, Num(100)),
                                            !.is_ready = TRUE]
                        ELSE s3
               ELSE s1
         IN  [s2 EXCEPT !.prev_close = close]

(***************************************************************************)
(* streaming/others.py: SharpeRatioStreaming                               *)
(***************************************************************************)
SharpeRatioStreaming_init(window, risk_free_rate, annualization_factor) ==
    StreamingIndicator_init(window) @@
    [risk_free_rate |-> risk_free_rate,
     annualization_factor |-> annualization_factor,
     prev_close |-> NaN,
     returns_buffer |-> <<>>]

\* a mutation: a tick without a log return clears is_ready
Mut_SharpeRatioStreaming_update(s, close) ==
    LET s1 == [s EXCEPT !.update_count = s.update_count + 1] IN
    IF s1.update_count = 1
    THEN [s1 EXCEPT !.prev_close = close]
    ELSE LET s2 ==
               IF Gt(s1.prev_close, Zero) /\ Gt(close, Zero)
               THEN LET log_return == np_log(Div(close, s1.prev_close))
                        s3 == [s1 EXCEPT !.returns_buffer =
                                  deque_append(s1.returns_buffer, log_return, s1.window)]
                    IN  IF Len(s3.returns_buffer) >= s3.window
                        THEN LET returns_array == s3.returns_buffer
                                 std == np_std_ddof1_log(returns_array)
                                 rf == s3.risk_free_rate
                                 af == s3.annualization_factor
                             IN  [s3 EXCEPT !.current_value =
                                                \* volatility = std * np.sqrt(af) is
                                                \* NaN or 0: not > 0
                                                IF IsNaN(af) \/ Le(af, Zero) \/ ~IsTerm(std)
                                                THEN Zero
                                                \* 0.0 if the residue is 0
                                                ELSE IF IsResidue(std)
                                                THEN <<"sharpe_rounding", std[2], rf, af>>
                                                \* avg_return and volatility infinite
                                                ELSE IF af = PosInf \/ IsNaN(rf)
                                                THEN NaN
                                                ELSE IF ~IsFinite(rf)
                                                THEN Neg(rf)
                                                ELSE <<"sharpe", std[2], rf, af>>,
                                            !.is_ready = TRUE]
                        ELSE s3
               ELSE [s1 EXCEPT !.is_ready = FALSE]
         IN  [s2 EXCEPT !.prev_close = close]

SharpeRatioStreaming_update(s, close) ==
    LET s1 == [s EXCEPT !.update_count = s.update_count + 1] IN
    IF s1.update_count = 1
    THEN [s1 EXCEPT !.prev_close = close]
    ELSE LET s2 ==
               IF Gt(s1.prev_close, Zero) /\ Gt(close, Zero)
               THEN LET log_return == np_log(Div(close, s1.prev_close))
                        s3 == [s1 EXCEPT !.returns_buffer =
                                  deque_append(s1.returns_buffer, log_return, s1.window)]
                    IN  IF Len(s3.returns_buffer) >= s3.window
                        THEN LET returns_array == s3.returns_buffer
                                 std == np_std_ddof1_log(returns_array)
                                 rf == s3.risk_free_rate
                                 af == s3.annualization_factor
                             IN  [s3 EXCEPT !.current_value =
                                                \* volatility = std * np.sqrt(af) is
                                                \* NaN or 0: not > 0
                                                IF IsNaN(af) \/ Le(af, Zero) \/ ~IsTerm(std)
                                                THEN Zero
                                                \* 0.0 if the residue is 0
                                                ELSE IF IsResidue(std)
                                                THEN <<"sharpe_rounding", std[2], rf, af>>
                                                \* avg_return and volatility infinite
                                                ELSE IF af = PosInf \/ IsNaN(rf)
                                                THEN NaN
                                                ELSE IF ~IsFinite(rf)
                                                THEN Neg(rf)
                                                ELSE <<"sharpe", std[2], rf, af>>,
                                            !.is_ready = TRUE]
                        ELSE s3
               ELSE s1
         IN  [s2 EXCEPT !.prev_close = close]

(***************************************************************************)
(* streaming/others.py: MaxDrawdownStreaming                               *)
(***************************************************************************)
MaxDrawdownStreaming_init(window) ==
    StreamingIndicator_init(window) @@ [close_buffer |-> <<>>]

\* a mutation: the closes kept in a list that is never trimmed
Mut_MaxDrawdownStreaming_update(s, close) ==
    LET s1 == [s EXCEPT !.update_count = s.update_count + 1,
                        !.close_buffer = Append(s.close_buffer, close)]
    IN  IF Len(s1.close_buffer) >= 2
        THEN LET close_array == s1.close_buffer
                 running_max == np_maximum_accumulate(close_array)
                 drawdowns == [i \in 1..Len(close_array) |->
                                  Div(Sub(close_array[i], running_max[i]), running_max[i])]
             IN  [s1 EXCEPT !.current_value = Mul(np_min(drawdowns), Num(100)),
                            !.is_ready = TRUE]
        ELSE s1

MaxDrawdownStreaming_update(s, close) ==
    LET s1 == [s EXCEPT !.update_count = s.update_count + 1,
                        !.close_buffer = deque_append(s.close_buffer, close, s.window)]
    IN  IF Len(s1.close_buffer) >= 2
        THEN LET close_array == s1.close_buffer
                 running_max == np_maximum_accumulate(close_array)
                 drawdowns == [i \in 1..Len(close_array) |->
                                  Div(Sub(close_array[i], running_max[i]), running_max[i])]
             IN  [s1 EXCEPT !.current_value = Mul(np_min(drawdowns), Num(100)),
                            !.is_ready = TRUE]
        ELSE s1

(***************************************************************************)
(* streaming/others.py: CalmarRatioStreaming                               *)
(***************************************************************************)
CalmarRatioStreaming_init(window) ==
    StreamingIndicator_init(window) @@ [close_buffer |-> <<>>]

\* mutant: ready one update early
Mut_CalmarRatioStreaming_update(s, close) ==
    LET s1 == [s EXCEPT !.update_count = s.update_count + 1,
                        !.close_buffer = deque_append(s.close_buffer, close, s.window)]
    IN  IF Len(s1.close_buffer) >= s1.window - 1
        THEN [s1 EXCEPT !.current_value = Zero, !.is_ready = TRUE]
        ELSE s1

CalmarRatioStreaming_update(s, close) ==
    LET s1 == [s EXCEPT !.update_count = s.update_count + 1,
                        !.close_buffer = deque_append(s.close_buffer, close, s.window)]
    IN  IF Len(s1.close_buffer) >= s1.window
        THEN LET close_array == s1.close_buffer
                 n == Len(close_array)
                 total_return == Sub(Div(close_array[n], close_array[1]), One)
                 annual_return == Mul(total_return, Div(Num(252), Num(n)))
                 running_max == np_maximum_accumulate(close_array)
                 drawdowns == [i \in 1..n |->
                                  Div(Sub(close_array[i], running_max[i]), running_max[i])]
                 max_drawdown == FAbs(np_min(drawdowns))
             IN  [s1 EXCEPT !.current_value =
                                IF Gt(max_drawdown, Zero)
                                THEN Div(annual_return, max_drawdown)
                                ELSE Zero,
                            !.is_ready = TRUE]
        ELSE s1

(***************************************************************************)
(* What is fixed when an instance is constructed, besides its class and    *)
(* its window: the other constructor arguments, and the behaviour that the *)
(* specification of the compiled library leaves open (the RSI of a series  *)
(* that does not move is 50 or NaN).                                       *)
(***************************************************************************)
VARIABLE params

StrategyMembers ==
    {"rust.BBandsStreaming", "rust.KeltnerChannelStreaming", "rust.SMAStreaming"}

ParamsOf(c) ==
    CASE c = "rust.RSIStreaming" -> {[no_movement |-> v] : v \in {NaN, Num(50)}}
      [] c = "rust.BBandsStreaming" -> {[std_dev |-> Num(k)] : k \in 0..2}
      [] c = "rust.KeltnerChannelStreaming" ->
            {[atr_period |-> 1, multiplier |-> Num(0)],
             [atr_period |-> 2, multiplier |-> Num(2)]}
      [] c = "rust.MACDStreaming" -> {[fast_period |-> 1, signal_period |-> 2]}
      \* what a read outside an array does in the build of the bulk functions:
      \* IndexError where bounds are checked (NUMBA_BOUNDSCHECK, or the
      \* functions run uncompiled), and in the default build an unchecked
      \* read that yields some value
      [] c = "RollingPercentileStreaming" ->
            {[out_of_bounds |-> v] : v \in {"IndexError", "unchecked"}}
      \* a strategy: its member classes in insertion order, and the arguments
      \* its members are constructed with
      [] c = "Strategy" ->
            {[members |-> <<a, b>>, std_dev |-> Num(2), atr_period |-> 1,
              multiplier |-> Num(2)] :
                <<a, b>> \in {m \in StrategyMembers \X StrategyMembers : m[1] # m[2]}}
      [] OTHER -> {[none |-> TRUE]}

(***************************************************************************)
(* volatility.py: bollinger_bands_numba.  The result is the tuple of the   *)
(* three arrays <<upper, middle, lower>>.  With n = 0 the loop starts at   *)
(* index -1 on an empty slice: the compiled np.mean divides the sum by the *)
(* size 0 and raises ZeroDivisionError.                                    *)
(***************************************************************************)
Mut_bollinger_bands_numba(close, n, k) ==
    IF n = 0 THEN Raises("ZeroDivisionError") ELSE
    LET window(i) == SubSeq(close, i - n + 1, i)
        sma(i) == np_mean(window(i))
        std_dev(i) == np_std(window(i))
    IN  << [i \in 1..Len(close) |->
               IF i < n THEN NaN ELSE SubSurd(sma(i), MulSqrt(k, std_dev(i)))],
           [i \in 1..Len(close) |-> IF i < n THEN NaN ELSE sma(i)],
           [i \in 1..Len(close) |->
               IF i < n THEN NaN ELSE AddSurd(sma(i), MulSqrt(k, std_dev(i)))] >>

bollinger_bands_numba(close, n, k) ==
    IF n = 0 THEN Raises("ZeroDivisionError") ELSE
    LET window(i) == SubSeq(close, i - n + 1, i)
        sma(i) == np_mean(window(i))
        std_dev(i) == np_std(window(i))
    IN  << [i \in 1..Len(close) |->
               IF i < n THEN NaN ELSE AddSurd(sma(i), MulSqrt(k, std_dev(i)))],
           [i \in 1..Len(close) |-> IF i < n THEN NaN ELSE sma(i)],
           [i \in 1..Len(close) |->
               IF i < n THEN NaN ELSE SubSurd(sma(i), MulSqrt(k, std_dev(i)))] >>

(***************************************************************************)
(* helpers.py (not among the sources), from the specification and from the *)
(* use volatility.py makes of it.  _sma_numba: mean of the last n values,  *)
(* NaN while fewer than min_periods values are there.                      *)
(* _ema_numba_unadjusted: ema[0] = x[0], ema[i] = a * x[i] + (1-a) *       *)
(* ema[i-1] with a = 2 / (n + 1).  _true_range_numba: high - low on the    *)
(* first bar, then the largest of high - low, |high - previous close| and  *)
(* |low - previous close|.  _wilders_ema_adaptive: Wilder's recurrence     *)
(* seeded by the simple average of the first n values, NaN before.         *)
(***************************************************************************)
sma_numba(x, n, min_periods) ==
    [i \in 1..Len(x) |->
        IF i < min_periods \/ i = 0 THEN NaN
        ELSE np_mean(SubSeq(x, IF i > n THEN i - n + 1 ELSE 1, i))]

RECURSIVE ema_at(_, _, _)
ema_at(x, n, i) ==
    IF i = 1 THEN x[1]
    ELSE LET alpha == Div(Num(2), Num(n + 1))
         IN  Add(Mul(alpha, x[i]), Mul(Sub(One, alpha), ema_at(x, n, i - 1)))

ema_numba_unadjusted(x, n) == [i \in 1..Len(x) |-> ema_at(x, n, i)]

true_range_numba(high, low, close) ==
    [i \in 1..Len(high) |->
        IF i = 1 THEN Sub(high[1], low[1])
        ELSE np_maximum(np_maximum(Sub(high[i], low[i]),
                                   FAbs(Sub(high[i], close[i - 1]))),
                        FAbs(Sub(low[i], close[i - 1])))]

RECURSIVE wilders_at(_, _, _)
wilders_at(x, n, i) ==
    IF i = n THEN Div(np_sum(SubSeq(x, 1, n)), Num(n))
    ELSE LET prev == wilders_at(x, n, i - 1)
         IN  Add(prev, Div(Sub(x[i], prev), Num(n)))

wilders_ema_adaptive(x, n) ==
    [i \in 1..Len(x) |-> IF i < n THEN NaN ELSE wilders_at(x, n, i)]

(***************************************************************************)
(* volatility.py: average_true_range_numba, keltner_channel_numba and      *)
(* donchian_channel_numba.  The channels are tuples of three arrays,       *)
(* <<upper, middle, lower>>.                                               *)
(***************************************************************************)
average_true_range_numba(high, low, close, n) ==
    wilders_ema_adaptive(true_range_numba(high, low, close), n)

keltner_channel_numba(high, low, close, n_ema, n_atr, k, original_version) ==
    IF original_version
    THEN LET three == Num(3)
             typical_price == [i \in 1..Len(close) |->
                 Div(Add(Add(high[i], low[i]), close[i]), three)]
             high_tp == [i \in 1..Len(close) |->
                 Div(Add(Sub(Mul(Num(4), high[i]), Mul(Num(2), low[i])), close[i]), three)]
             low_tp == [i \in 1..Len(close) |->
                 Div(Add(Add(Mul(Num(-2), high[i]), Mul(Num(4), low[i])), close[i]), three)]
         IN  << sma_numba(high_tp, n_ema, 0),
                sma_numba(typical_price, n_ema, n_ema),
                sma_numba(low_tp, n_ema, 0) >>
    ELSE LET middle == ema_numba_unadjusted(close, n_ema)
             atr_values == average_true_range_numba(high, low, close, n_atr)
             defined(i) == ~IsNaN(middle[i]) /\ ~IsNaN(atr_values[i])
         IN  << [i \in 1..Len(close) |->
                    IF defined(i) THEN Add(middle[i], Mul(k, atr_values[i])) ELSE NaN],
                middle,
                [i \in 1..Len(close) |->
                    IF defined(i) THEN Sub(middle[i], Mul(k, atr_values[i])) ELSE NaN] >>

\* mutant: the upper band is the smallest high of the window
Mut_donchian_channel_numba(high, low, n) ==
    IF n = 0 THEN Raises("ValueError") ELSE
    LET upper_val(i) == np_min(SubSeq(high, i - n + 1, i))
        lower_val(i) == np_min(SubSeq(low, i - n + 1, i))
    IN  << [i \in 1..Len(high) |-> IF i < n THEN NaN ELSE upper_val(i)],
           [i \in 1..Len(high) |->
               IF i < n THEN NaN ELSE Div(Add(upper_val(i), lower_val(i)), Num(2))],
           [i \in 1..Len(high) |-> IF i < n THEN NaN ELSE lower_val(i)] >>

\* with n = 0 the loop starts at index -1 on empty slices, and the compiled
\* np.max raises ValueError on a zero-size array
donchian_channel_numba(high, low, n) ==
    IF n = 0 THEN Raises("ValueError") ELSE
    LET upper_val(i) == np_max(SubSeq(high, i - n + 1, i))
        lower_val(i) == np_min(SubSeq(low, i - n + 1, i))
    IN  << [i \in 1..Len(high) |-> IF i < n THEN NaN ELSE upper_val(i)],
           [i \in 1..Len(high) |->
               IF i < n THEN NaN ELSE Div(Add(upper_val(i), lower_val(i)), Num(2))],
           [i \in 1..Len(high) |-> IF i < n THEN NaN ELSE lower_val(i)] >>

(***************************************************************************)
(* The compiled indicators behind the wrappers of _rust_streaming.py       *)
(* (_rs.SMAStreaming, _rs.DailyReturnStreaming).  Their code is not part   *)
(* of the sources at hand; they are modelled from the specification:       *)
(* NaN during warm-up, then the value of the bulk function on the inputs   *)
(* so far, and reset() returns to the state before the first update.       *)
(***************************************************************************)
rs_SMAStreaming_new(window) == [window |-> window, buffer |-> <<>>]

rs_SMAStreaming_update(inner, value) ==
    LET buf == deque_append(inner.buffer, value, inner.window)
    IN  [self |-> [inner EXCEPT !.buffer = buf],
         ret |-> IF Len(buf) < inner.window THEN NaN ELSE np_mean(buf)]

rs_SMAStreaming_reset(inner) == [inner EXCEPT !.buffer = <<>>]

rs_DailyReturnStreaming_new == [prev_close |-> NaN, count |-> 0]

rs_DailyReturnStreaming_update(inner, value) ==
    [self |-> [prev_close |-> value, count |-> inner.count + 1],
     ret |-> IF inner.count = 0 THEN NaN
             ELSE Mul(Div(Sub(value, inner.prev_close), inner.prev_close), Num(100))]

rs_DailyReturnStreaming_reset(inner) == rs_DailyReturnStreaming_new

(***************************************************************************)
(* _rs.RSIStreaming and _rs.relative_strength_index_numba, from the        *)
(* specification: gains and losses of successive changes are smoothed by   *)
(* Wilder's recurrence s[i] = s[i-1] + (x[i] - s[i-1]) / n, seeded by the  *)
(* simple average of the first n changes; RSI = 100 - 100 / (1 + RS) with  *)
(* RS = average gain / average loss, which is 100 when the average loss is *)
(* 0 and the average gain is not.                                          *)
(***************************************************************************)
rs_rsi_value(avg_gain, avg_loss) ==
    IF avg_gain = Zero /\ avg_loss = Zero THEN params.no_movement
    ELSE Sub(Num(100), Div(Num(100), Add(One, Div(avg_gain, avg_loss))))

rs_RSIStreaming_new(window) ==
    [window |-> window, prev |-> NaN, count |-> 0,
     avg_gain |-> Zero, avg_loss |-> Zero]

rs_RSIStreaming_update(inner, value) ==
    IF inner.count = 0
    THEN [self |-> [inner EXCEPT !.prev = value, !.count = 1], ret |-> NaN]
    ELSE LET n == Num(inner.window)
             change == Sub(value, inner.prev)
             gain == np_maximum(change, Zero)
             loss == np_maximum(Neg(change), Zero)
             changes == inner.count
             \* while seeding, avg_gain and avg_loss hold the sums so far
             g == IF changes < inner.window THEN Add(inner.avg_gain, gain)
                  ELSE IF changes = inner.window
                  THEN Div(Add(inner.avg_gain, gain), n)
                  ELSE Add(inner.avg_gain, Div(Sub(gain, inner.avg_gain), n))
             l == IF changes < inner.window THEN Add(inner.avg_loss, loss)
                  ELSE IF changes = inner.window
                  THEN Div(Add(inner.avg_loss, loss), n)
                  ELSE Add(inner.avg_loss, Div(Sub(loss, inner.avg_loss), n))
         IN  [self |-> [inner EXCEPT !.prev = value, !.count = inner.count + 1,
                                     !.avg_gain = g, !.avg_loss = l],
              ret |-> IF changes < inner.window THEN NaN ELSE rs_rsi_value(g, l)]

rs_RSIStreaming_reset(inner) == rs_RSIStreaming_new(inner.window)

(***************************************************************************)
(* _rs.BBandsStreaming, from the specification: SMA +/- k * std over the   *)
(* window, NaN in all three outputs during warm-up, equal tick for tick to *)
(* the bulk function.  update returns the tuple <<upper, middle, lower>>.  *)
(***************************************************************************)
rs_BBandsStreaming_new(window, std_dev) ==
    [window |-> window, std_dev |-> std_dev, buffer |-> <<>>]

rs_BBandsStreaming_update(inner, value) ==
    LET buf == deque_append(inner.buffer, value, inner.window)
        sma == np_mean(buf)
        width == MulSqrt(inner.std_dev, np_std(buf))
    IN  [self |-> [inner EXCEPT !.buffer = buf],
         ret |-> IF Len(buf) < inner.window THEN <<NaN, NaN, NaN>>
                 ELSE <<AddSurd(sma, width), sma, SubSurd(sma, width)>>]

rs_BBandsStreaming_reset(inner) == [inner EXCEPT !.buffer = <<>>]

(***************************************************************************)
(* _rs.DonchianChannelStreaming and _rs.KeltnerChannelStreaming, from the  *)
(* specification: rolling high/low extremes; EMA of the close +/- k * ATR  *)
(* (the default variant of the bulk function), each equal tick for tick to *)
(* its bulk function.  update returns the tuple <<upper, middle, lower>>.  *)
(***************************************************************************)
rs_DonchianChannelStreaming_new(window) ==
    [window |-> window, highs |-> <<>>, lows |-> <<>>]

rs_DonchianChannelStreaming_update(inner, high, low) ==
    LET highs == deque_append(inner.highs, high, inner.window)
        lows == deque_append(inner.lows, low, inner.window)
        upper == np_max(highs)
        lower == np_min(lows)
    IN  [self |-> [inner EXCEPT !.highs = highs, !.lows = lows],
         ret |-> IF Len(highs) < inner.window THEN <<NaN, NaN, NaN>>
                 ELSE <<upper, Div(Add(upper, lower), Num(2)), lower>>]

rs_DonchianChannelStreaming_reset(inner) ==
    rs_DonchianChannelStreaming_new(inner.window)

rs_KeltnerChannelStreaming_new(window, atr_period, multiplier) ==
    [window |-> window, atr_period |-> atr_period, multiplier |-> multiplier,
     count |-> 0, ema |-> NaN, prev_close |-> NaN, atr |-> Zero]

rs_KeltnerChannelStreaming_update(inner, high, low, close) ==
    LET n == Num(inner.atr_period)
        alpha == Div(Num(2), Num(inner.window + 1))
        count == inner.count + 1
        tr == IF inner.count = 0 THEN Sub(high, low)
              ELSE np_maximum(np_maximum(Sub(high, low),
                                         FAbs(Sub(high, inner.prev_close))),
                              FAbs(Sub(low, inner.prev_close)))
        ema == IF inner.count = 0 THEN close
               ELSE Add(Mul(alpha, close), Mul(Sub(One, alpha), inner.ema))
        \* while seeding, atr holds the sum of the true ranges so far
        atr == IF count < inner.atr_period THEN Add(inner.atr, tr)
               ELSE IF count = inner.atr_period THEN Div(Add(inner.atr, tr), n)
               ELSE Add(inner.atr, Div(Sub(tr, inner.atr), n))
    IN  [self |-> [inner EXCEPT !.count = count, !.ema = ema,
                                !.prev_close = close, !.atr = atr],
         ret |-> IF count < inner.atr_period THEN <<NaN, ema, NaN>>
                 ELSE <<Add(ema, Mul(inner.multiplier, atr)), ema,
                        Sub(ema, Mul(inner.multiplier, atr))>>]

rs_KeltnerChannelStreaming_reset(inner) ==
    rs_KeltnerChannelStreaming_new(inner.window, inner.atr_period, inner.multiplier)

(***************************************************************************)
(* _rs.MACDStreaming, from the specification: the difference of a fast and *)
(* a slow EMA of the value (each seeded by the first value), the signal    *)
(* line an EMA of that difference, the histogram their difference; NaN     *)
(* until slow_period values have been seen.  update returns the tuple      *)
(* <<macd, signal, histogram>>.                                            *)
(***************************************************************************)
rs_ema_step(prev, value, n) ==
    IF IsNaN(prev) THEN value
    ELSE LET alpha == Div(Num(2), Num(n + 1))
         IN  Add(Mul(alpha, value), Mul(Sub(One, alpha), prev))

rs_MACDStreaming_new(fast_period, slow_period, signal_period) ==
    [fast_period |-> fast_period, slow_period |-> slow_period,
     signal_period |-> signal_period,
     count |-> 0, ema_fast |-> NaN, ema_slow |-> NaN, signal |-> NaN]

rs_MACDStreaming_update(inner, value) ==
    LET count == inner.count + 1
        ema_fast == rs_ema_step(inner.ema_fast, value, inner.fast_period)
        ema_slow == rs_ema_step(inner.ema_slow, value, inner.slow_period)
        macd == IF count < inner.slow_period THEN NaN ELSE Sub(ema_fast, ema_slow)
        signal == IF IsNaN(macd) THEN NaN
                  ELSE rs_ema_step(inner.signal, macd, inner.signal_period)
    IN  [self |-> [inner EXCEPT !.count = count, !.ema_fast = ema_fast,
                                !.ema_slow = ema_slow, !.signal = signal],
         ret |-> <<macd, signal, Sub(macd, signal)>>]

rs_MACDStreaming_reset(inner) ==
    rs_MACDStreaming_new(inner.fast_period, inner.slow_period, inner.signal_period)

\* Wilder's average of x[1..i], i >= n
RECURSIVE rs_wilders(_, _, _)
rs_wilders(x, n, i) ==
    IF i = n THEN Div(np_sum(SubSeq(x, 1, n)), Num(n))
    ELSE LET prev == rs_wilders(x, n, i - 1)
         IN  Add(prev, Div(Sub(x[i], prev), Num(n)))

rs_relative_strength_index_numba(close, n) ==
    LET gains == [j \in 1..(Len(close) - 1) |->
                     np_maximum(Sub(close[j + 1], close[j]), Zero)]
        losses == [j \in 1..(Len(close) - 1) |->
                     np_maximum(Sub(close[j], close[j + 1]), Zero)]
    IN  [i \in 1..Len(close) |->
            IF i - 1 < n THEN NaN
            ELSE rs_rsi_value(rs_wilders(gains, n, i - 1), rs_wilders(losses, n, i - 1))]

(***************************************************************************)
(* streaming/_rust_streaming.py: SMAStreaming.  An update operator of a    *)
(* wrapper yields the instance after the call (self) and the mapping the   *)
(* call returns (ret).                                                     *)
(***************************************************************************)
Rust_SMAStreaming_init(window) ==
    [inner |-> rs_SMAStreaming_new(window),
     current_value |-> NaN,
     is_ready |-> FALSE,
     update_count |-> 0,
     window |-> window]

\* mutant: the call is not counted
Mut_Rust_SMAStreaming_update_uncounted(s, value) ==
    LET r == rs_SMAStreaming_update(s.inner, value)
        result == r.ret
    IN  [self |-> [s EXCEPT !.inner = r.self,
                            !.current_value = result,
                            !.is_ready = ~IsNaN(result)],
         ret |-> [sma |-> result]]

\* mutant: ready after every update
Mut_Rust_SMAStreaming_update_ready(s, value) ==
    LET s1 == [s EXCEPT !.update_count = s.update_count + 1]
        r == rs_SMAStreaming_update(s1.inner, value)
        result == r.ret
    IN  [self |-> [s1 EXCEPT !.inner = r.self,
                             !.current_value = result,
                             !.is_ready = TRUE],
         ret |-> [sma |-> result]]

\* mutant: the call is not counted before the inner update is called
Mut_Rust_SMAStreaming_update_enter(s) == s

\* update(), its first statement: the call is counted, and then the inner
\* update is called
Rust_SMAStreaming_update_enter(s) == [s EXCEPT !.update_count = s.update_count + 1]

\* update(), the statements after the inner call, which run when it returned
Rust_SMAStreaming_update_return(s1, value) ==
    LET r == rs_SMAStreaming_update(s1.inner, value)
        result == r.ret
    IN  [self |-> [s1 EXCEPT !.inner = r.self,
                             !.current_value = result,
                             !.is_ready = ~IsNaN(result)],
         ret |-> [sma |-> result]]

Rust_SMAStreaming_update(s, value) ==
    Rust_SMAStreaming_update_return(Rust_SMAStreaming_update_enter(s), value)

\* mutant: reset leaves is_ready as it is
Mut_Rust_SMAStreaming_reset(s) ==
    [s EXCEPT !.inner = rs_SMAStreaming_reset(s.inner),
              !.current_value = NaN,
              !.update_count = 0]

Rust_SMAStreaming_reset(s) ==
    [s EXCEPT !.inner = rs_SMAStreaming_reset(s.inner),
              !.current_value = NaN,
              !.is_ready = FALSE,
              !.update_count = 0]

(***************************************************************************)
(* streaming/_rust_streaming.py: DailyReturnStreaming                      *)
(***************************************************************************)
Rust_DailyReturnStreaming_init ==
    [inner |-> rs_DailyReturnStreaming_new,
     current_value |-> NaN,
     is_ready |-> FALSE,
     update_count |-> 0,
     window |-> 1]

Rust_DailyReturnStreaming_update(s, value) ==
    LET s1 == [s EXCEPT !.update_count = s.update_count + 1]
        r == rs_DailyReturnStreaming_update(s1.inner, value)
        result == r.ret
    IN  [self |-> [s1 EXCEPT !.inner = r.self,
                             !.current_value = result,
                             !.is_ready = ~IsNaN(result)],
         ret |-> [dr |-> result]]

Rust_DailyReturnStreaming_reset(s) ==
    [s EXCEPT !.inner = rs_DailyReturnStreaming_reset(s.inner),
              !.current_value = NaN,
              !.is_ready = FALSE,
              !.update_count = 0]

(***************************************************************************)
(* streaming/_rust_streaming.py: RSIStreaming                              *)
(***************************************************************************)
Rust_RSIStreaming_init(window) ==
    [inner |-> rs_RSIStreaming_new(window),
     current_value |-> NaN,
     is_ready |-> FALSE,
     update_count |-> 0,
     window |-> window]

\* mutant: the mapping carries the result scaled once more to per cent
Mut_Rust_RSIStreaming_update(s, value) ==
    LET s1 == [s EXCEPT !.update_count = s.update_count + 1]
        r == rs_RSIStreaming_update(s1.inner, value)
        result == r.ret
    IN  [self |-> [s1 EXCEPT !.inner = r.self,
                             !.current_value = result,
                             !.is_ready = ~IsNaN(result)],
         ret |-> [rsi |-> Mul(result, Num(100))]]

Rust_RSIStreaming_update(s, value) ==
    LET s1 == [s EXCEPT !.update_count = s.update_count + 1]
        r == rs_RSIStreaming_update(s1.inner, value)
        result == r.ret
    IN  [self |-> [s1 EXCEPT !.inner = r.self,
                             !.current_value = result,
                             !.is_ready = ~IsNaN(result)],
         ret |-> [rsi |-> result]]

Rust_RSIStreaming_reset(s) ==
    [s EXCEPT !.inner = rs_RSIStreaming_reset(s.inner),
              !.current_value = NaN,
              !.is_ready = FALSE,
              !.update_count = 0]

(***************************************************************************)
(* streaming/_rust_streaming.py: BBandsStreaming                           *)
(***************************************************************************)
Rust_BBandsStreaming_init(window, std_dev) ==
    [inner |-> rs_BBandsStreaming_new(window, std_dev),
     current_value |-> NaN,
     is_ready |-> FALSE,
     update_count |-> 0,
     window |-> window]

Rust_BBandsStreaming_update(s, value) ==
    LET s1 == [s EXCEPT !.update_count = s.update_count + 1]
        r == rs_BBandsStreaming_update(s1.inner, value)
        upper == r.ret[1]
        middle == r.ret[2]
        lower == r.ret[3]
    IN  [self |-> [s1 EXCEPT !.inner = r.self,
                             !.current_value = upper,
                             !.is_ready = ~IsNaN(upper)],
         ret |-> [upper |-> upper, middle |-> middle, lower |-> lower]]

Rust_BBandsStreaming_reset(s) ==
    [s EXCEPT !.inner = rs_BBandsStreaming_reset(s.inner),
              !.current_value = NaN,
              !.is_ready = FALSE,
              !.update_count = 0]

(***************************************************************************)
(* streaming/_rust_streaming.py: KeltnerChannelStreaming                   *)
(***************************************************************************)
Rust_KeltnerChannelStreaming_init(window, atr_period, multiplier) ==
    [inner |-> rs_KeltnerChannelStreaming_new(window, atr_period, multiplier),
     current_value |-> NaN,
     is_ready |-> FALSE,
     update_count |-> 0,
     window |-> window]

Rust_KeltnerChannelStreaming_update(s, high, low, close) ==
    LET s1 == [s EXCEPT !.update_count = s.update_count + 1]
        r == rs_KeltnerChannelStreaming_update(s1.inner, high, low, close)
        upper == r.ret[1]
        middle == r.ret[2]
        lower == r.ret[3]
    IN  [self |-> [s1 EXCEPT !.inner = r.self,
                             !.current_value = upper,
                             !.is_ready = ~IsNaN(upper)],
         ret |-> [upper |-> upper, middle |-> middle, lower |-> lower]]

Rust_KeltnerChannelStreaming_reset(s) ==
    [s EXCEPT !.inner = rs_KeltnerChannelStreaming_reset(s.inner),
              !.current_value = NaN,
              !.is_ready = FALSE,
              !.update_count = 0]

(***************************************************************************)
(* streaming/_rust_streaming.py: DonchianChannelStreaming                  *)
(***************************************************************************)
Rust_DonchianChannelStreaming_init(window) ==
    [inner |-> rs_DonchianChannelStreaming_new(window),
     current_value |-> NaN,
     is_ready |-> FALSE,
     update_count |-> 0,
     window |-> window]

Rust_DonchianChannelStreaming_update(s, high, low) ==
    LET s1 == [s EXCEPT !.update_count = s.update_count + 1]
        r == rs_DonchianChannelStreaming_update(s1.inner, high, low)
        upper == r.ret[1]
        middle == r.ret[2]
        lower == r.ret[3]
    IN  [self |-> [s1 EXCEPT !.inner = r.self,
                             !.current_value = upper,
                             !.is_ready = ~IsNaN(upper)],
         ret |-> [upper |-> upper, middle |-> middle, lower |-> lower]]

Rust_DonchianChannelStreaming_reset(s) ==
    [s EXCEPT !.inner = rs_DonchianChannelStreaming_reset(s.inner),
              !.current_value = NaN,
              !.is_ready = FALSE,
              !.update_count = 0]

(***************************************************************************)
(* streaming/_rust_streaming.py: MACDStreaming                             *)
(***************************************************************************)
Rust_MACDStreaming_init(fast_period, slow_period, signal_period) ==
    [inner |-> rs_MACDStreaming_new(fast_period, slow_period, signal_period),
     current_value |-> NaN,
     is_ready |-> FALSE,
     update_count |-> 0,
     window |-> slow_period]

\* mutant: current_value takes the histogram
Mut_Rust_MACDStreaming_update(s, value) ==
    LET s1 == [s EXCEPT !.update_count = s.update_count + 1]
        r == rs_MACDStreaming_update(s1.inner, value)
        macd == r.ret[1]
        signal == r.ret[2]
        hist == r.ret[3]
    IN  [self |-> [s1 EXCEPT !.inner = r.self,
                             !.current_value = hist,
                             !.is_ready = ~IsNaN(macd)],
         ret |-> [macd |-> macd, signal |-> signal, histogram |-> hist]]

\* update(), its first statement: the call is counted, and then the inner
\* update is called
Rust_MACDStreaming_update_enter(s) == [s EXCEPT !.update_count = s.update_count + 1]

\* update(), the statements after the inner call, which run when it returned
Rust_MACDStreaming_update_return(s1, value) ==
    LET r == rs_MACDStreaming_update(s1.inner, value)
        macd == r.ret[1]
        signal == r.ret[2]
        hist == r.ret[3]
    IN  [self |-> [s1 EXCEPT !.inner = r.self,
                             !.current_value = macd,
                             !.is_ready = ~IsNaN(macd)],
         ret |-> [macd |-> macd, signal |-> signal, histogram |-> hist]]

Rust_MACDStreaming_update(s, value) ==
    Rust_MACDStreaming_update_return(Rust_MACDStreaming_update_enter(s), value)

Rust_MACDStreaming_reset(s) ==
    [s EXCEPT !.inner = rs_MACDStreaming_reset(s.inner),
              !.current_value = NaN,
              !.is_ready = FALSE,
              !.update_count = 0]

(***************************************************************************)
(* others.py: daily_return_numba.  Sequences are 1-based: index i of the   *)
(* array is element i + 1 of the sequence.                                 *)
(***************************************************************************)
daily_return_numba(close) ==
    [i \in 1..Len(close) |->
        IF i = 1 THEN NaN
        ELSE Mul(Div(Sub(close[i], close[i - 1]), close[i - 1]), Num(100))]

(***************************************************************************)
(* others.py: daily_log_return_numba                                       *)
(***************************************************************************)
daily_log_return_numba(close) ==
    [i \in 1..Len(close) |->
        IF i = 1 THEN NaN
        ELSE LogTimes100(np_log(Div(close[i], close[i - 1])))]

(***************************************************************************)
(* others.py: cumulative_return_numba                                      *)
(***************************************************************************)
cumulative_return_numba(close) ==
    IF Len(close) > 0 /\ Neq(close[1], Zero)
    THEN [i \in 1..Len(close) |->
             Mul(Sub(Div(close[i], close[1]), One), Num(100))]
    ELSE [i \in 1..Len(close) |-> NaN]

(***************************************************************************)
(* others.py: compound_log_return_numba.  np.nansum adds the elements that *)
(* are not NaN.                                                            *)
(***************************************************************************)
RECURSIVE np_nansum_log(_)
np_nansum_log(arr) ==
    IF arr = <<>> THEN LogZero
    ELSE LET rest == np_nansum_log(SubSeq(arr, 1, Len(arr) - 1))
             last == arr[Len(arr)]
         IN  IF IsNaN(last.ln) THEN rest ELSE LogAdd(rest, last)

compound_log_return_numba(close) ==
    LET n == Len(close)
        log_returns == [i \in 1..n |->
                           IF i = 1 THEN [ln |-> NaN]
                           ELSE np_log(Div(close[i], close[i - 1]))]
        clr == [i \in 1..n |->
                   IF i = 1 THEN NaN
                   ELSE Sub(np_exp(np_nansum_log(SubSeq(log_returns, 2, i))), One)]
    IN  [i \in 1..n |-> Mul(clr[i], Num(100))]

(***************************************************************************)
(* others.py: rolling_zscore_numba.  A call that raises returns            *)
(* Raises(exception) in place of an array.  With window 0 the loop         *)
(* starts at index -1 and its first statement after the empty summation,   *)
(* `mean /= window`, divides by zero: compiled code raises                 *)
(* ZeroDivisionError on a scalar division by zero, whatever the data.      *)
(***************************************************************************)
\* mutant: the loop starts one index late
Mut_rolling_zscore_numba(data, window) ==
    IF window = 0 THEN Raises("ZeroDivisionError") ELSE
    [k \in 1..Len(data) |->
        IF k < window + 1 THEN NaN
        ELSE LET window_slice == SubSeq(data, k - window + 1, k)
                 mean == Div(np_sum([j \in 1..window |-> window_slice[j]]), Num(window))
                 var == Div(np_sum([j \in 1..window |->
                                       Mul(Sub(window_slice[j], mean), Sub(window_slice[j], mean))]),
                            Num(window))
                 std == np_sqrt(var)
             IN  IF StdUndecided(window_slice, TRUE)
                 THEN <<"zscore_rounding_fastmath", window_slice, data[k]>>
                 ELSE IF SqrtNeqZero(std) THEN DivBySqrt(Sub(data[k], mean), std)
                 ELSE Zero]

rolling_zscore_numba(data, window) ==
    IF window = 0 THEN Raises("ZeroDivisionError") ELSE
    [k \in 1..Len(data) |->
        IF k < window THEN NaN
        ELSE LET window_slice == SubSeq(data, k - window + 1, k)
                 mean == Div(np_sum([j \in 1..window |-> window_slice[j]]), Num(window))
                 var == Div(np_sum([j \in 1..window |->
                                       Mul(Sub(window_slice[j], mean), Sub(window_slice[j], mean))]),
                            Num(window))
                 std == np_sqrt(var)
             IN  IF StdUndecided(window_slice, TRUE)
                 THEN <<"zscore_rounding_fastmath", window_slice, data[k]>>
                 ELSE IF SqrtNeqZero(std) THEN DivBySqrt(Sub(data[k], mean), std)
                 ELSE Zero]

(***************************************************************************)
(* others.py: linear_regression_slope_numba                                *)
(***************************************************************************)
linear_regression_slope_numba(data, window) ==
    LET n == Len(data)
        w == window
        sum_x == Div(Num(w * (w - 1)), Num(2))
        sum_x2 == Div(Num(w * (w - 1) * (2 * w - 1)), Num(6))
        denom == Sub(Mul(Num(w), sum_x2), Mul(sum_x, sum_x))
    IN  IF Eq(denom, Zero) THEN [k \in 1..n |-> NaN]
        ELSE [k \in 1..n |->
                 IF k < window THEN NaN
                 ELSE LET y == [j \in 1..window |-> data[k - window + j]]
                          sum_y == np_sum(y)
                          sum_xy == np_sum([j \in 1..window |-> Mul(Num(j - 1), y[j])])
                      IN  Div(Sub(Mul(Num(w), sum_xy), Mul(sum_x, sum_y)), denom)]

(***************************************************************************)
(* others.py: rolling_percentile_numba.  With window 0 the loop starts at  *)
(* index -1: `current = data[i]` reads the last element, the inner loop    *)
(* over range(0, 0) counts nothing and `count / window` raises             *)
(* ZeroDivisionError.  Of an empty array the read of data[-1] is out of    *)
(* bounds: it raises IndexError where bounds are checked, and where they   *)
(* are not it yields a value that is never used, so that the division is   *)
(* reached.  Which of the two happens is a matter of the build             *)
(* (params.out_of_bounds).                                                 *)
(***************************************************************************)
rolling_percentile_numba(data, window) ==
    IF window = 0
    THEN IF Len(data) = 0 /\ params.out_of_bounds = "IndexError"
         THEN Raises("IndexError")
         ELSE Raises("ZeroDivisionError")
    ELSE
    [k \in 1..Len(data) |->
        IF k < window THEN NaN
        ELSE LET current == data[k]
                 count == Cardinality({j \in (k - window + 1)..k : Le(data[j], current)})
             IN  Div(Num(count), Num(window))]

(***************************************************************************)
(* EMAStreaming and CompoundLogReturnStreaming of _rust_streaming.py.  The *)
(* compiled EMA is seeded with the first value and returns a value from    *)
(* the first update on; the compiled compound log return follows           *)
(* compound_log_return_numba: NaN on the first close, then                 *)
(* (exp(sum of the defined log returns) - 1) * 100.                        *)
(***************************************************************************)
rs_EMAStreaming_new(window) == [window |-> window, ema |-> NaN]

rs_EMAStreaming_update(inner, value) ==
    LET ema == rs_ema_step(inner.ema, value, inner.window)
    IN  [self |-> [inner EXCEPT !.ema = ema], ret |-> ema]

rs_EMAStreaming_reset(inner) == [inner EXCEPT !.ema = NaN]

Rust_EMAStreaming_init(window) ==
    [inner |-> rs_EMAStreaming_new(window),
     current_value |-> NaN,
     is_ready |-> FALSE,
     update_count |-> 0,
     window |-> window]

\* a mutation: the inner indicator fed the update count in place of the value
Mut_Rust_EMAStreaming_update(s, value) ==
    LET s1 == [s EXCEPT !.update_count = s.update_count + 1]
        r == rs_EMAStreaming_update(s1.inner, Num(s1.update_count))
        result == r.ret
    IN  [self |-> [s1 EXCEPT !.inner = r.self,
                             !.current_value = result,
                             !.is_ready = ~IsNaN(result)],
         ret |-> [ema |-> result]]

Rust_EMAStreaming_update(s, value) ==
    LET s1 == [s EXCEPT !.update_count = s.update_count + 1]
        r == rs_EMAStreaming_update(s1.inner, value)
        result == r.ret
    IN  [self |-> [s1 EXCEPT !.inner = r.self,
                             !.current_value = result,
                             !.is_ready = ~IsNaN(result)],
         ret |-> [ema |-> result]]

Rust_EMAStreaming_reset(s) ==
    [s EXCEPT !.inner = rs_EMAStreaming_reset(s.inner),
              !.current_value = NaN,
              !.is_ready = FALSE,
              !.update_count = 0]

rs_CompoundLogReturnStreaming_new ==
    [prev_close |-> NaN, cumulative_log_return |-> LogZero, count |-> 0]

rs_CompoundLogReturnStreaming_update(inner, value) ==
    LET log_return == np_log(Div(value, inner.prev_close))
        cum == IF inner.count = 0 \/ IsNaN(log_return.ln)
               THEN inner.cumulative_log_return
               ELSE LogAdd(inner.cumulative_log_return, log_return)
    IN  [self |-> [prev_close |-> value, cumulative_log_return |-> cum,
                   count |-> inner.count + 1],
         ret |-> IF inner.count = 0 THEN NaN
                 ELSE Mul(Sub(np_exp(cum), One), Num(100))]

rs_CompoundLogReturnStreaming_reset(inner) == rs_CompoundLogReturnStreaming_new

Rust_CompoundLogReturnStreaming_init ==
    [inner |-> rs_CompoundLogReturnStreaming_new,
     current_value |-> NaN,
     is_ready |-> FALSE,
     update_count |-> 0,
     window |-> 1]

\* a mutation: readiness taken from the result as in the other wrappers
Mut_Rust_CompoundLogReturnStreaming_update(s, value) ==
    LET s1 == [s EXCEPT !.update_count = s.update_count + 1]
        r == rs_CompoundLogReturnStreaming_update(s1.inner, value)
        result == r.ret
    IN  [self |-> [s1 EXCEPT !.inner = r.self,
                             !.current_value = result,
                             !.is_ready = ~IsNaN(result)],
         ret |-> [clr |-> result]]

Rust_CompoundLogReturnStreaming_update(s, value) ==
    LET s1 == [s EXCEPT !.update_count = s.update_count + 1]
        r == rs_CompoundLogReturnStreaming_update(s1.inner, value)
        result == r.ret
    IN  [self |-> [s1 EXCEPT !.inner = r.self,
                             !.current_value = result,
                             !.is_ready = TRUE],
         ret |-> [clr |-> result]]

Rust_CompoundLogReturnStreaming_reset(s) ==
    [s EXCEPT !.inner = rs_CompoundLogReturnStreaming_reset(s.inner),
              !.current_value = NaN,
              !.is_ready = FALSE,
              !.update_count = 0]

(***************************************************************************)
(* The classes of the model and the closes they are fed.                   *)
(***************************************************************************)
PyClasses ==
    {"DailyReturnStreaming", "CumulativeReturnStreaming", "DailyLogReturnStreaming", "CompoundLogReturnStreaming", "RollingReturnStreaming",
     "RollingZScoreStreaming", "LinearRegressionSlopeStreaming",
     "RollingPercentileStreaming", "CalmarRatioStreaming",
     "VolatilityStreaming", "SharpeRatioStreaming", "MaxDrawdownStreaming"}

\* the wrappers of _rust_streaming.py
RustClasses ==
    {"rust.SMAStreaming", "rust.DailyReturnStreaming", "rust.RSIStreaming",
     "rust.BBandsStreaming", "rust.KeltnerChannelStreaming",
     "rust.DonchianChannelStreaming", "rust.MACDStreaming",
     "rust.EMAStreaming", "rust.CompoundLogReturnStreaming"}

Classes == PyClasses \cup RustClasses

\* the classes whose constructor takes a window
Windowed ==
    {"RollingReturnStreaming", "RollingZScoreStreaming", "LinearRegressionSlopeStreaming",
     "RollingPercentileStreaming", "rust.SMAStreaming", "CalmarRatioStreaming",
     "rust.RSIStreaming", "rust.BBandsStreaming",
     "rust.KeltnerChannelStreaming", "rust.DonchianChannelStreaming",
     "rust.MACDStreaming", "rust.EMAStreaming",
     "VolatilityStreaming", "SharpeRatioStreaming", "MaxDrawdownStreaming"}

InputsOf(c) ==
    IF c \in {"DailyReturnStreaming", "rust.DailyReturnStreaming"}
    THEN {Num(0), Num(2), Num(100), Num(105)}
    ELSE IF c = "rust.SMAStreaming"
    THEN {Num(1), Num(2), Num(3), Num(10), Num(20), Num(30)}
    ELSE IF c \in {"rust.RSIStreaming", "rust.MACDStreaming"}
    THEN {Num(1), Num(2), Num(3)}
    ELSE IF c = "rust.BBandsStreaming"
    THEN {Num(1), Num(3), NaN}
    ELSE IF c = "rust.EMAStreaming"
    THEN {Num(1), Num(10), Num(20)}
    \* bars: high >= low
    ELSE IF c = "rust.DonchianChannelStreaming"
    THEN {[high |-> Num(1), low |-> Num(1)], [high |-> Num(2), low |-> Num(1)],
          [high |-> Num(3), low |-> Num(2)]}
    ELSE IF c = "rust.KeltnerChannelStreaming"
    THEN {[high |-> Num(1), low |-> Num(1), close |-> Num(1)],
          [high |-> Num(3), low |-> Num(2), close |-> Num(3)],
          [high |-> Num(3), low |-> Num(0), close |-> Num(2)]}
    \* a NaN marks a missing observation; it compares false with every value
    ELSE IF c = "RollingPercentileStreaming"
    THEN {Num(1), Num(2), Num(3), NaN}
    \* 1/10 stands for the double 0.1, which is not a sum of its thirds
    ELSE IF c = "RollingZScoreStreaming"
    THEN {Num(0), Num(1), Num(3), Div(Num(1), Num(10))}
    ELSE {Num(0), Num(1), Num(2), Num(3)}

Construct(c, w) ==
    CASE c = "DailyReturnStreaming" -> DailyReturnStreaming_init
      [] c = "DailyLogReturnStreaming" -> DailyLogReturnStreaming_init
      [] c = "CumulativeReturnStreaming" -> CumulativeReturnStreaming_init
      [] c = "CompoundLogReturnStreaming" -> CompoundLogReturnStreaming_init
      [] c = "RollingReturnStreaming" -> RollingReturnStreaming_init(w)
      [] c = "RollingZScoreStreaming" -> RollingZScoreStreaming_init(w)
      [] c = "LinearRegressionSlopeStreaming" -> LinearRegressionSlopeStreaming_init(w)
      [] c = "RollingPercentileStreaming" -> RollingPercentileStreaming_init(w)
      [] c = "CalmarRatioStreaming" -> CalmarRatioStreaming_init(w)
      \* default arguments of the constructors
      [] c = "VolatilityStreaming" -> VolatilityStreaming_init(w, TRUE)
      [] c = "SharpeRatioStreaming" -> SharpeRatioStreaming_init(w, Div(Num(2), Num(100)), Num(252))
      [] c = "MaxDrawdownStreaming" -> MaxDrawdownStreaming_init(w)
      [] c = "rust.SMAStreaming" -> Rust_SMAStreaming_init(w)
      [] c = "rust.DailyReturnStreaming" -> Rust_DailyReturnStreaming_init
      [] c = "rust.RSIStreaming" -> Rust_RSIStreaming_init(w)
      [] c = "rust.BBandsStreaming" -> Rust_BBandsStreaming_init(w, params.std_dev)
      [] c = "rust.KeltnerChannelStreaming" ->
            Rust_KeltnerChannelStreaming_init(w, params.atr_period, params.multiplier)
      [] c = "rust.DonchianChannelStreaming" -> Rust_DonchianChannelStreaming_init(w)
      \* the window of MACD is its slow period
      [] c = "rust.MACDStreaming" ->
            Rust_MACDStreaming_init(params.fast_period, w, params.signal_period)
      [] c = "rust.EMAStreaming" -> Rust_EMAStreaming_init(w)
      [] c = "rust.CompoundLogReturnStreaming" -> Rust_CompoundLogReturnStreaming_init

(***************************************************************************)
(* State.                                                                  *)
(*   cls     class of the instance                                         *)
(*   ind     the instance (its fields)                                     *)
(*   ret     value returned by the last update call                        *)
(*   inputs  values passed to update since construction or the last reset  *)
(*   resets  number of reset calls, ticks: number of update calls          *)
(*   lastOp  the last call made on the instance                            *)
(* params (declared above, with the constructors) is set here and never    *)
(* changes.                                                                *)
(***************************************************************************)
VARIABLES cls, ind, ret, inputs, resets, ticks, lastOp

vars == <<cls, ind, ret, inputs, resets, ticks, lastOp, params>>

Init ==
    /\ cls \in Classes
    /\ params \in ParamsOf(cls)
    /\ \E w \in 1..MaxWindow :
          /\ (cls \notin Windowed => w = 1)
          \* MACD is constructed with fast_period < slow_period
          /\ (cls = "rust.MACDStreaming" => params.fast_period < w)
          /\ ind = Construct(cls, w)
    /\ ret = NaN
    /\ inputs = <<>>
    /\ resets = 0
    /\ ticks = 0
    /\ lastOp = "init"

Called(x) ==
    /\ inputs' = Append(inputs, x)
    /\ ticks' = ticks + 1
    /\ lastOp' = "update"
    /\ UNCHANGED <<cls, resets, params>>

DailyReturnStreaming_update_call ==
    /\ cls = "DailyReturnStreaming"
    /\ ticks < MaxTicks
    /\ \E close \in InputsOf(cls) :
          /\ ind' = DailyReturnStreaming_update(ind, close)
          /\ ret' = ind'.current_value
          /\ Called(close)

DailyLogReturnStreaming_update_call ==
    /\ cls = "DailyLogReturnStreaming"
    /\ ticks < MaxTicks
    /\ \E close \in InputsOf(cls) :
          /\ ind' = DailyLogReturnStreaming_update(ind, close)
          /\ ret' = ind'.current_value
          /\ Called(close)

CumulativeReturnStreaming_update_call ==
    /\ cls = "CumulativeReturnStreaming"
    /\ ticks < MaxTicks
    /\ \E close \in InputsOf(cls) :
          /\ ind' = CumulativeReturnStreaming_update(ind, close)
          /\ ret' = ind'.current_value
          /\ Called(close)

CompoundLogReturnStreaming_update_call ==
    /\ cls = "CompoundLogReturnStreaming"
    /\ ticks < MaxTicks
    /\ \E close \in InputsOf(cls) :
          /\ ind' = CompoundLogReturnStreaming_update(ind, close)
          /\ ret' = ind'.current_value
          /\ Called(close)

RollingReturnStreaming_update_call ==
    /\ cls = "RollingReturnStreaming"
    /\ ticks < MaxTicks
    /\ \E close \in InputsOf(cls) :
          /\ ind' = RollingReturnStreaming_update(ind, close)
          /\ ret' = ind'.current_value
          /\ Called(close)

RollingZScoreStreaming_update_call ==
    /\ cls = "RollingZScoreStreaming"
    /\ ticks < MaxTicks
    /\ \E value \in InputsOf(cls) :
          /\ ind' = RollingZScoreStreaming_update(ind, value)
          /\ ret' = ind'.current_value
          /\ Called(value)

LinearRegressionSlopeStreaming_update_call ==
    /\ cls = "LinearRegressionSlopeStreaming"
    /\ ticks < MaxTicks
    /\ \E value \in InputsOf(cls) :
          /\ ind' = LinearRegressionSlopeStreaming_update(ind, value)
          /\ ret' = ind'.current_value
          /\ Called(value)

RollingPercentileStreaming_update_call ==
    /\ cls = "RollingPercentileStreaming"
    /\ ticks < MaxTicks
    /\ \E value \in InputsOf(cls) :
          /\ ind' = RollingPercentileStreaming_update(ind, value)
          /\ ret' = ind'.current_value
          /\ Called(value)

CalmarRatioStreaming_update_call ==
    /\ cls = "CalmarRatioStreaming"
    /\ ticks < MaxTicks
    /\ \E close \in InputsOf(cls) :
          /\ ind' = CalmarRatioStreaming_update(ind, close)
          /\ ret' = ind'.current_value
          /\ Called(close)

VolatilityStreaming_update_call ==
    /\ cls = "VolatilityStreaming"
    /\ ticks < MaxTicks
    /\ \E close \in InputsOf(cls) :
          /\ ind' = VolatilityStreaming_update(ind, close)
          /\ ret' = ind'.current_value
          /\ Called(close)

SharpeRatioStreaming_update_call ==
    /\ cls = "SharpeRatioStreaming"
    /\ ticks < MaxTicks
    /\ \E close \in InputsOf(cls) :
          /\ ind' = SharpeRatioStreaming_update(ind, close)
          /\ ret' = ind'.current_value
          /\ Called(close)

MaxDrawdownStreaming_update_call ==
    /\ cls = "MaxDrawdownStreaming"
    /\ ticks < MaxTicks
    /\ \E close \in InputsOf(cls) :
          /\ ind' = MaxDrawdownStreaming_update(ind, close)
          /\ ret' = ind'.current_value
          /\ Called(close)

Rust_SMAStreaming_update_call ==
    /\ cls = "rust.SMAStreaming"
    /\ ticks < MaxTicks
    /\ \E value \in InputsOf(cls) :
          LET r == Rust_SMAStreaming_update(ind, value)
          IN  /\ ind' = r.self
              /\ ret' = r.ret
              /\ Called(value)

Rust_DailyReturnStreaming_update_call ==
    /\ cls = "rust.DailyReturnStreaming"
    /\ ticks < MaxTicks
    /\ \E value \in InputsOf(cls) :
          LET r == Rust_DailyReturnStreaming_update(ind, value)
          IN  /\ ind' = r.self
              /\ ret' = r.ret
              /\ Called(value)

Rust_RSIStreaming_update_call ==
    /\ cls = "rust.RSIStreaming"
    /\ ticks < MaxTicks
    /\ \E value \in InputsOf(cls) :
          LET r == Rust_RSIStreaming_update(ind, value)
          IN  /\ ind' = r.self
              /\ ret' = r.ret
              /\ Called(value)

Rust_BBandsStreaming_update_call ==
    /\ cls = "rust.BBandsStreaming"
    /\ ticks < MaxTicks
    /\ \E value \in InputsOf(cls) :
          LET r == Rust_BBandsStreaming_update(ind, value)
          IN  /\ ind' = r.self
              /\ ret' = r.ret
              /\ Called(value)

Rust_KeltnerChannelStreaming_update_call ==
    /\ cls = "rust.KeltnerChannelStreaming"
    /\ ticks < MaxTicks
    /\ \E bar \in InputsOf(cls) :
          LET r == Rust_KeltnerChannelStreaming_update(ind, bar.high, bar.low, bar.close)
          IN  /\ ind' = r.self
              /\ ret' = r.ret
              /\ Called(bar)

Rust_DonchianChannelStreaming_update_call ==
    /\ cls = "rust.DonchianChannelStreaming"
    /\ ticks < MaxTicks
    /\ \E bar \in InputsOf(cls) :
          LET r == Rust_DonchianChannelStreaming_update(ind, bar.high, bar.low)
          IN  /\ ind' = r.self
              /\ ret' = r.ret
              /\ Called(bar)

Rust_MACDStreaming_update_call ==
    /\ cls = "rust.MACDStreaming"
    /\ ticks < MaxTicks
    /\ \E value \in InputsOf(cls) :
          LET r == Rust_MACDStreaming_update(ind, value)
          IN  /\ ind' = r.self
              /\ ret' = r.ret
              /\ Called(value)

Rust_EMAStreaming_update_call ==
    /\ cls = "rust.EMAStreaming"
    /\ ticks < MaxTicks
    /\ \E value \in InputsOf(cls) :
          LET r == Rust_EMAStreaming_update(ind, value)
          IN  /\ ind' = r.self
              /\ ret' = r.ret
              /\ Called(value)

Rust_CompoundLogReturnStreaming_update_call ==
    /\ cls = "rust.CompoundLogReturnStreaming"
    /\ ticks < MaxTicks
    /\ \E value \in InputsOf(cls) :
          LET r == Rust_CompoundLogReturnStreaming_update(ind, value)
          IN  /\ ind' = r.self
              /\ ret' = r.ret
              /\ Called(value)

ResetDone ==
    /\ inputs' = <<>>
    /\ resets' = resets + 1
    /\ lastOp' = "reset"
    /\ UNCHANGED <<cls, ret, ticks, params>>

StreamingIndicator_reset_call ==
    /\ cls \in PyClasses
    /\ resets < MaxResets
    /\ ind' = StreamingIndicator_reset(ind)
    /\ ResetDone

Rust_SMAStreaming_reset_call ==
    /\ cls = "rust.SMAStreaming"
    /\ resets < MaxResets
    /\ ind' = Rust_SMAStreaming_reset(ind)
    /\ ResetDone

Rust_DailyReturnStreaming_reset_call ==
    /\ cls = "rust.DailyReturnStreaming"
    /\ resets < MaxResets
    /\ ind' = Rust_DailyReturnStreaming_reset(ind)
    /\ ResetDone

Rust_RSIStreaming_reset_call ==
    /\ cls = "rust.RSIStreaming"
    /\ resets < MaxResets
    /\ ind' = Rust_RSIStreaming_reset(ind)
    /\ ResetDone

Rust_BBandsStreaming_reset_call ==
    /\ cls = "rust.BBandsStreaming"
    /\ resets < MaxResets
    /\ ind' = Rust_BBandsStreaming_reset(ind)
    /\ ResetDone

Rust_KeltnerChannelStreaming_reset_call ==
    /\ cls = "rust.KeltnerChannelStreaming"
    /\ resets < MaxResets
    /\ ind' = Rust_KeltnerChannelStreaming_reset(ind)
    /\ ResetDone

Rust_DonchianChannelStreaming_reset_call ==
    /\ cls = "rust.DonchianChannelStreaming"
    /\ resets < MaxResets
    /\ ind' = Rust_DonchianChannelStreaming_reset(ind)
    /\ ResetDone

Rust_MACDStreaming_reset_call ==
    /\ cls = "rust.MACDStreaming"
    /\ resets < MaxResets
    /\ ind' = Rust_MACDStreaming_reset(ind)
    /\ ResetDone

Rust_EMAStreaming_reset_call ==
    /\ cls = "rust.EMAStreaming"
    /\ resets < MaxResets
    /\ ind' = Rust_EMAStreaming_reset(ind)
    /\ ResetDone

Rust_CompoundLogReturnStreaming_reset_call ==
    /\ cls = "rust.CompoundLogReturnStreaming"
    /\ resets < MaxResets
    /\ ind' = Rust_CompoundLogReturnStreaming_reset(ind)
    /\ ResetDone

Next ==
    \/ DailyReturnStreaming_update_call
    \/ DailyLogReturnStreaming_update_call
    \/ CumulativeReturnStreaming_update_call
    \/ CompoundLogReturnStreaming_update_call
    \/ RollingReturnStreaming_update_call
    \/ RollingZScoreStreaming_update_call
    \/ LinearRegressionSlopeStreaming_update_call
    \/ RollingPercentileStreaming_update_call
    \/ CalmarRatioStreaming_update_call
    \/ VolatilityStreaming_update_call
    \/ SharpeRatioStreaming_update_call
    \/ MaxDrawdownStreaming_update_call
    \/ Rust_SMAStreaming_update_call
    \/ Rust_DailyReturnStreaming_update_call
    \/ Rust_EMAStreaming_update_call
    \/ Rust_CompoundLogReturnStreaming_update_call
    \/ Rust_RSIStreaming_update_call
    \/ Rust_BBandsStreaming_update_call
    \/ Rust_KeltnerChannelStreaming_update_call
    \/ Rust_DonchianChannelStreaming_update_call
    \/ Rust_MACDStreaming_update_call
    \/ StreamingIndicator_reset_call
    \/ Rust_SMAStreaming_reset_call
    \/ Rust_DailyReturnStreaming_reset_call
    \/ Rust_EMAStreaming_reset_call
    \/ Rust_CompoundLogReturnStreaming_reset_call
    \/ Rust_RSIStreaming_reset_call
    \/ Rust_BBandsStreaming_reset_call
    \/ Rust_KeltnerChannelStreaming_reset_call
    \/ Rust_DonchianChannelStreaming_reset_call
    \/ Rust_MACDStreaming_reset_call

Spec == Init /\ [][Next]_vars

(***************************************************************************)
(* The strategy aggregator, from the specification (its code is not among  *)
(* the sources): a mapping from indicator name to instance; update fans    *)
(* the observation out to every member, collects each member's output      *)
(* mapping and merges them into one flat mapping, a later member's entry   *)
(* replacing an earlier one under the same key; reset_all resets every     *)
(* member.  The members are wrappers of _rust_streaming.py, named by their *)
(* classes, each constructed with window StrategyWindow.                   *)
(***************************************************************************)
StrategyWindow == 2

Observations ==
    {[high |-> Num(1), low |-> Num(1), close |-> Num(1)],
     [high |-> Num(3), low |-> Num(2), close |-> Num(3)],
     [high |-> Num(3), low |-> Num(0), close |-> Num(2)]}

\* the update of a member with the inputs it takes from the observation
MemberUpdate(c, s, obs) ==
    CASE c = "rust.SMAStreaming" -> Rust_SMAStreaming_update(s, obs.close)
      [] c = "rust.BBandsStreaming" -> Rust_BBandsStreaming_update(s, obs.close)
      [] c = "rust.KeltnerChannelStreaming" ->
            Rust_KeltnerChannelStreaming_update(s, obs.high, obs.low, obs.close)

MemberReset(c, s) ==
    CASE c = "rust.SMAStreaming" -> Rust_SMAStreaming_reset(s)
      [] c = "rust.BBandsStreaming" -> Rust_BBandsStreaming_reset(s)
      [] c = "rust.KeltnerChannelStreaming" -> Rust_KeltnerChannelStreaming_reset(s)

\* dict.update: the entries of m2 added to m1, replacing those with the same key
FlatMerge(m1, m2) ==
    [k \in DOMAIN m1 \cup DOMAIN m2 |-> IF k \in DOMAIN m2 THEN m2[k] ELSE m1[k]]

Strategy_init(members, window) ==
    [indicators |-> [c \in {members[i] : i \in 1..Len(members)} |-> Construct(c, window)]]

\* the output mappings outs of the first n members, merged in insertion order
RECURSIVE Strategy_merged(_, _, _)
Strategy_merged(outs, members, n) ==
    IF n = 0 THEN <<>>
    ELSE FlatMerge(Strategy_merged(outs, members, n - 1), outs[members[n]].ret)

\* every member is updated with the observation; the mappings they return
\* are merged
Strategy_update(s, members, obs) ==
    LET outs == [c \in DOMAIN s.indicators |-> MemberUpdate(c, s.indicators[c], obs)]
    IN  [self |-> [s EXCEPT !.indicators = [c \in DOMAIN outs |-> outs[c].self]],
         ret |-> Strategy_merged(outs, members, Len(members))]

Strategy_reset_all(s) ==
    [s EXCEPT !.indicators = [c \in DOMAIN s.indicators |-> MemberReset(c, s.indicators[c])]]

InitAgg ==
    /\ cls = "Strategy"
    /\ params \in ParamsOf(cls)
    /\ ind = Strategy_init(params.members, StrategyWindow)
    /\ ret = NaN
    /\ inputs = <<>>
    /\ resets = 0
    /\ ticks = 0
    /\ lastOp = "init"

Strategy_update_call ==
    /\ cls = "Strategy"
    /\ ticks < MaxTicks
    /\ \E obs \in Observations :
          LET r == Strategy_update(ind, params.members, obs)
          IN  /\ ind' = r.self
              /\ ret' = r.ret
              /\ Called(obs)

Strategy_reset_all_call ==
    /\ cls = "Strategy"
    /\ resets < MaxResets
    /\ ind' = Strategy_reset_all(ind)
    /\ ResetDone

NextAgg ==
    \/ Strategy_update_call
    \/ Strategy_reset_all_call

SpecAgg == InitAgg /\ [][NextAgg]_vars

(***************************************************************************)
(* Helpers of the properties.                                              *)
(***************************************************************************)
\* number of update calls since construction or the last reset
nUpdates == Len(inputs)

\* the number returned by the last update call (the primary output of a wrapper)
Returned ==
    CASE cls = "rust.SMAStreaming" -> ret.sma
      [] cls = "rust.DailyReturnStreaming" -> ret.dr
      [] cls = "rust.RSIStreaming" -> ret.rsi
      [] cls = "rust.BBandsStreaming" -> ret.upper
      [] cls = "rust.KeltnerChannelStreaming" -> ret.upper
      [] cls = "rust.DonchianChannelStreaming" -> ret.upper
      [] cls = "rust.MACDStreaming" -> ret.macd
      [] cls = "rust.EMAStreaming" -> ret.ema
      [] cls = "rust.CompoundLogReturnStreaming" -> ret.clr
      [] OTHER -> ret

\* the instance has been updated and never reset
FreshRun == resets = 0 /\ lastOp = "update"

AllPositive(xs) == \A i \in 1..Len(xs) : Gt(xs[i], Zero)

\* update of a class of streaming/others.py, by class name
Step(c, s, x) ==
    CASE c = "DailyReturnStreaming" -> DailyReturnStreaming_update(s, x)
      [] c = "DailyLogReturnStreaming" -> DailyLogReturnStreaming_update(s, x)
      [] c = "CumulativeReturnStreaming" -> CumulativeReturnStreaming_update(s, x)
      [] c = "CompoundLogReturnStreaming" -> CompoundLogReturnStreaming_update(s, x)
      [] c = "RollingReturnStreaming" -> RollingReturnStreaming_update(s, x)
      [] c = "RollingZScoreStreaming" -> RollingZScoreStreaming_update(s, x)
      [] c = "LinearRegressionSlopeStreaming" -> LinearRegressionSlopeStreaming_update(s, x)
      [] c = "RollingPercentileStreaming" -> RollingPercentileStreaming_update(s, x)
      [] c = "CalmarRatioStreaming" -> CalmarRatioStreaming_update(s, x)
      [] c = "VolatilityStreaming" -> VolatilityStreaming_update(s, x)
      [] c = "SharpeRatioStreaming" -> SharpeRatioStreaming_update(s, x)
      [] c = "MaxDrawdownStreaming" -> MaxDrawdownStreaming_update(s, x)

\* a freshly constructed instance of class c fed xs
RECURSIVE RunFresh(_, _, _)
RunFresh(c, w, xs) ==
    IF xs = <<>> THEN Construct(c, w)
    ELSE Step(c, RunFresh(c, w, SubSeq(xs, 1, Len(xs) - 1)), xs[Len(xs)])

\* arithmetic mean of the last w elements of xs
MeanOfLast(xs, w) ==
    Div(np_sum(SubSeq(xs, Len(xs) - w + 1, Len(xs))), Num(w))

(***************************************************************************)
(* C1: the k-th update of RollingPercentileStreaming(w) returns the value  *)
(* of rolling_percentile_numba on the first k inputs at index k-1: NaN for *)
(* k < w, otherwise (number of the last w inputs <= x_k) / w.              *)
(***************************************************************************)
C1_RollingPercentileMatchesBulk ==
    (cls = "RollingPercentileStreaming" /\ FreshRun) =>
        /\ ret = rolling_percentile_numba(inputs, ind.window)[nUpdates]
        /\ (nUpdates < ind.window => IsNaN(ret))
        /\ (nUpdates >= ind.window =>
               ret = Div(Num(Cardinality({j \in (nUpdates - ind.window + 1)..nUpdates :
                                             Le(inputs[j], inputs[nUpdates])})),
                         Num(ind.window)))

C1_Witness ==
    /\ cls = "RollingPercentileStreaming"
    /\ FreshRun
    /\ ind.window = 2
    /\ nUpdates = 3
    /\ ret = Div(One, Num(2))

(***************************************************************************)
(* C2: the k-th update of LinearRegressionSlopeStreaming(w) returns the    *)
(* value of linear_regression_slope_numba on the first k inputs at index   *)
(* k-1 (NaN for k < w, the least-squares slope over the last w inputs      *)
(* afterwards).                                                            *)
(***************************************************************************)
C2_LinearRegressionSlopeMatchesBulk ==
    (cls = "LinearRegressionSlopeStreaming" /\ FreshRun) =>
        /\ ret = linear_regression_slope_numba(inputs, ind.window)[nUpdates]
        /\ (nUpdates < ind.window => IsNaN(ret))

C2_Witness ==
    /\ cls = "LinearRegressionSlopeStreaming"
    /\ FreshRun
    /\ ind.window = 3
    /\ nUpdates = 4
    /\ inputs = <<Num(0), Num(1), Num(3), Num(2)>>
    /\ ret = Div(One, Num(2))

(***************************************************************************)
(* C3: the k-th update of RollingZScoreStreaming(w) returns the value of   *)
(* rolling_zscore_numba on the first k inputs at index k-1: NaN for k < w, *)
(* (x_k - mean) / std with the population standard deviation of the last w *)
(* inputs, and 0 when that standard deviation is 0.                        *)
(***************************************************************************)
C3_RollingZScoreMatchesBulk ==
    (cls = "RollingZScoreStreaming" /\ FreshRun) =>
        /\ ret = rolling_zscore_numba(inputs, ind.window)[nUpdates]
        /\ (nUpdates < ind.window => IsNaN(ret))
        /\ (nUpdates >= ind.window /\ (\A j \in (nUpdates - ind.window + 1)..nUpdates : inputs[j] = inputs[nUpdates])
               => ret = Zero)

\* window <<1, 3>>: mean 2, std 1, z-score of 3 is 1
C3_Witness ==
    /\ cls = "RollingZScoreStreaming"
    /\ FreshRun
    /\ ind.window = 2
    /\ nUpdates = 3
    /\ inputs[2] = Num(1)
    /\ inputs[3] = Num(3)
    /\ ret = One

(***************************************************************************)
(* C4: the k-th update of DailyReturnStreaming returns the value of        *)
(* daily_return_numba on the first k closes at index k-1, closes of zero   *)
(* included.                                                               *)
(***************************************************************************)
C4_DailyReturnMatchesBulk ==
    (cls = "DailyReturnStreaming" /\ FreshRun) =>
        ret = daily_return_numba(inputs)[nUpdates]

(***************************************************************************)
(* C5: for positive closes the k-th update of CompoundLogReturnStreaming   *)
(* returns the value of compound_log_return_numba on the first k closes at *)
(* index k-1, for every k >= 1.                                            *)
(***************************************************************************)
C5_CompoundLogReturnMatchesBulk ==
    (cls = "CompoundLogReturnStreaming" /\ FreshRun /\ AllPositive(inputs)) =>
        ret = compound_log_return_numba(inputs)[nUpdates]

(***************************************************************************)
(* C6: update_count is the number of update calls made since construction  *)
(* or since the most recent reset.                                         *)
(***************************************************************************)
C6_UpdateCountCountsUpdates == ind.update_count = nUpdates

C6_Witness ==
    /\ resets = 1
    /\ lastOp = "update"
    /\ ticks = 4
    /\ ind.update_count = 2

(***************************************************************************)
(* C7: after reset() a wrapper of _rust_streaming.py is in the state of a  *)
(* freshly constructed instance: update_count 0, is_ready false,           *)
(* current_value NaN, inner indicator reset.                               *)
(***************************************************************************)
C7_WrapperResetRestoresFresh ==
    (cls \in RustClasses /\ lastOp = "reset") =>
        /\ ind.update_count = 0
        /\ ind.is_ready = FALSE
        /\ IsNaN(ind.current_value)
        /\ ind = Construct(cls, ind.window)

\* a reset of a wrapper that was ready
C7_Witness ==
    /\ cls \in RustClasses
    /\ lastOp = "reset"
    /\ ticks >= 2
    /\ ~IsNaN(Returned)

(***************************************************************************)
(* C8: for the classes of streaming/others.py that keep state in fields of *)
(* their own, reset() followed by an input sequence gives the outputs and  *)
(* the is_ready values of a freshly constructed instance fed that          *)
(* sequence.                                                               *)
(***************************************************************************)
C8_ResetThenReplayEqualsFresh ==
    (cls \in {"CompoundLogReturnStreaming", "RollingReturnStreaming"}
        /\ resets > 0 /\ lastOp = "update") =>
        LET fresh == RunFresh(cls, ind.window, inputs)
        IN  /\ ret = fresh.current_value
            /\ ind.is_ready = fresh.is_ready

(***************************************************************************)
(* C9: SMAStreaming(window=w) returns {"sma": NaN} and is not ready on the *)
(* first w-1 updates; from the w-th update on it returns the mean of the   *)
(* last w values, is ready, and current_value is that mean.                *)
(***************************************************************************)
C9_SMAWarmupThenMean ==
    (cls = "rust.SMAStreaming" /\ FreshRun) =>
        /\ DOMAIN ret = {"sma"}
        /\ (nUpdates < ind.window => IsNaN(ret.sma) /\ ~ind.is_ready)
        /\ (nUpdates >= ind.window =>
               /\ ret.sma = MeanOfLast(inputs, ind.window)
               /\ ind.is_ready
               /\ ind.current_value = MeanOfLast(inputs, ind.window))

\* window 3 fed 10, 20, 30 gives 20
C9_Witness ==
    /\ cls = "rust.SMAStreaming"
    /\ FreshRun
    /\ ind.window = 3
    /\ inputs = <<Num(10), Num(20), Num(30)>>
    /\ ret.sma = Num(20)
    /\ ind.is_ready

(***************************************************************************)
(* C10: DailyReturnStreaming returns NaN and is not ready on the first     *)
(* update after construction or reset; on the second update, with a        *)
(* non-zero first close c_1, it returns (c_2 - c_1) / c_1 * 100 and is     *)
(* ready.                                                                  *)
(***************************************************************************)
C10_DailyReturnFirstTwoUpdates ==
    (cls \in {"DailyReturnStreaming", "rust.DailyReturnStreaming"} /\ lastOp = "update") =>
        /\ (nUpdates = 1 => IsNaN(Returned) /\ ~ind.is_ready)
        /\ (nUpdates = 2 /\ Neq(inputs[1], Zero) =>
               /\ Returned = Mul(Div(Sub(inputs[2], inputs[1]), inputs[1]), Num(100))
               /\ ind.is_ready)

\* 100 then 105 gives 5.0, also after a reset
C10_Witness ==
    /\ cls = "DailyReturnStreaming"
    /\ lastOp = "update"
    /\ resets = 1
    /\ inputs = <<Num(100), Num(105)>>
    /\ Returned = Num(5)
    /\ ind.is_ready

(***************************************************************************)
(* C11: RollingReturnStreaming, RollingZScoreStreaming,                    *)
(* RollingPercentileStreaming and CalmarRatioStreaming constructed with    *)
(* window w >= 1 are not ready after each of the updates 1..w-1 and ready  *)
(* after update w and after every later update, whatever the inputs.       *)
(***************************************************************************)
C11_WarmupBoundary ==
    (cls \in {"RollingReturnStreaming", "RollingZScoreStreaming",
              "RollingPercentileStreaming", "CalmarRatioStreaming"} /\ FreshRun) =>
        (ind.is_ready <=> nUpdates >= ind.window)

\* a Calmar ratio over a window of 3 that was not ready one update before
C11_Witness ==
    /\ cls = "CalmarRatioStreaming"
    /\ FreshRun
    /\ ind.window = 3
    /\ nUpdates = 4
    /\ ind.is_ready
    /\ ~RunFresh(cls, 3, SubSeq(inputs, 1, 2)).is_ready
    /\ Lt(ret, Zero)

(***************************************************************************)
(* C12: while fewer than w updates have been made since construction or    *)
(* reset, MaxDrawdownStreaming, SharpeRatioStreaming and                   *)
(* VolatilityStreaming constructed with window w are not ready and update  *)
(* returns NaN.                                                            *)
(***************************************************************************)
C12_NotReadyBeforeWindow ==
    (cls \in {"MaxDrawdownStreaming", "SharpeRatioStreaming", "VolatilityStreaming"}
        /\ lastOp = "update" /\ nUpdates < ind.window) =>
        (~ind.is_ready /\ IsNaN(ret))

(***************************************************************************)
(* C13: when DailyLogReturnStreaming, CompoundLogReturnStreaming,          *)
(* VolatilityStreaming or SharpeRatioStreaming receives a tick whose close *)
(* or previous close is <= 0, the output of that tick is NaN / not ready,  *)
(* whatever was output on earlier ticks.                                   *)
(***************************************************************************)
C13_NonPositivePriceGivesNaN ==
    (cls \in {"DailyLogReturnStreaming", "CompoundLogReturnStreaming",
              "VolatilityStreaming", "SharpeRatioStreaming"}
        /\ FreshRun /\ nUpdates >= 2
        /\ (Le(inputs[nUpdates], Zero) \/ Le(inputs[nUpdates - 1], Zero))) =>
        (IsNaN(ret) \/ ~ind.is_ready)

(***************************************************************************)
(* C14: a zero divisor yields 0.0 with is_ready true once the window is    *)
(* filled: RollingReturnStreaming when the oldest buffered close is 0,     *)
(* RollingZScoreStreaming when the standard deviation of the window is 0,  *)
(* SharpeRatioStreaming when the volatility of the returns is not > 0, and *)
(* CalmarRatioStreaming when the maximum drawdown of the window is 0.      *)
(***************************************************************************)
C14_MaxDrawdown(close_array) ==
    LET running_max == np_maximum_accumulate(close_array)
    IN  FAbs(np_min([i \in 1..Len(close_array) |->
                        Div(Sub(close_array[i], running_max[i]), running_max[i])]))

C14_ZeroDivisor ==
    /\ cls = "RollingReturnStreaming"
         => Len(ind.close_buffer) >= ind.window /\ ind.close_buffer[1] = Zero
    /\ cls = "RollingZScoreStreaming"
         => /\ Len(ind.buffer) >= ind.window
            /\ ~SqrtNeqZero(np_std(ind.buffer))
    /\ cls = "SharpeRatioStreaming"
         => /\ nUpdates >= 2
            /\ Gt(inputs[nUpdates - 1], Zero) /\ Gt(inputs[nUpdates], Zero)
            /\ Len(ind.returns_buffer) >= ind.window
            /\ \/ IsNaN(ind.annualization_factor)
               \/ Le(ind.annualization_factor, Zero)
               \/ ~IsTerm(np_std_ddof1_log(ind.returns_buffer))
    /\ cls = "CalmarRatioStreaming"
         => Len(ind.close_buffer) >= ind.window
              /\ C14_MaxDrawdown(ind.close_buffer) = Zero

C14_ZeroDivisorGivesZero ==
    (cls \in {"RollingReturnStreaming", "RollingZScoreStreaming",
              "SharpeRatioStreaming", "CalmarRatioStreaming"}
        /\ lastOp = "update" /\ C14_ZeroDivisor) =>
        (ret = Zero /\ ind.is_ready)

\* the window's standard deviation is 0 and the update does not return 0.0:
\* RollingZScoreStreaming(3) fed 0.1, 0.1, 0.1, whose mean as computed in
\* doubles is not 0.1, so that `std != 0` holds and the quotient is returned
C14_ZScoreResidue ==
    /\ cls = "RollingZScoreStreaming" /\ ind.window = 3 /\ lastOp = "update"
    /\ ind.buffer = <<Div(Num(1), Num(10)), Div(Num(1), Num(10)), Div(Num(1), Num(10))>>
    /\ C14_ZeroDivisor /\ ret # Zero

(***************************************************************************)
(* C15: CumulativeReturnStreaming is ready after its first update and      *)
(* returns 0.0 on it; the reference price is the first close since         *)
(* construction or reset and no later update changes it; for k >= 2 with a *)
(* non-zero reference price the k-th output is ((c_k / c_1) - 1) * 100,    *)
(* the value of cumulative_return_numba on the prefix at index k-1.        *)
(***************************************************************************)
C15_CumulativeReturn ==
    (cls = "CumulativeReturnStreaming" /\ lastOp = "update") =>
        /\ ind.is_ready
        /\ ind.initial_price = inputs[1]
        /\ (nUpdates = 1 => ret = Zero)
        /\ (nUpdates >= 2 /\ Neq(inputs[1], Zero) =>
              /\ ret = Mul(Sub(Div(inputs[nUpdates], inputs[1]), One), Num(100))
              /\ ret = cumulative_return_numba(inputs)[nUpdates])

\* after a reset, the third close against a new reference price: 3 vs 2
C15_Witness ==
    /\ cls = "CumulativeReturnStreaming" /\ lastOp = "update"
    /\ resets = 1 /\ inputs = <<Num(2), Num(1), Num(3)>>
    /\ ind.initial_price = Num(2) /\ ret = Num(50)

(***************************************************************************)
(* C16: after every update of the wrapper RSIStreaming the "rsi" output is *)
(* NaN or lies in [0, 100], and so does every element of the bulk RSI      *)
(* array over the same inputs.                                             *)
(***************************************************************************)
C16_InRange(x) == IsNaN(x) \/ (Le(Zero, x) /\ Le(x, Num(100)))

C16_RSIRange ==
    (cls = "rust.RSIStreaming" /\ lastOp = "update") =>
        /\ C16_InRange(ret.rsi)
        /\ \A i \in 1..Len(inputs) :
              C16_InRange(rs_relative_strength_index_numba(inputs, ind.window)[i])

\* strictly increasing inputs drive the RSI to the bound 100 (gains 1, 1 and
\* no loss with window 2); the bulk array agrees
C16_Witness ==
    /\ cls = "rust.RSIStreaming" /\ lastOp = "update"
    /\ ind.window = 2 /\ inputs = <<Num(1), Num(2), Num(3)>>
    /\ ret.rsi = Num(100)
    /\ rs_relative_strength_index_numba(inputs, 2)[3] = Num(100)

\* gains and losses mixed: 1, 3, 2, 3 with window 2 gives 80
C16_WitnessInterior ==
    /\ cls = "rust.RSIStreaming" /\ lastOp = "update"
    /\ ind.window = 2 /\ inputs = <<Num(1), Num(3), Num(2), Num(3)>>
    /\ ret.rsi = Num(80)
    /\ rs_relative_strength_index_numba(inputs, 2)[4] = Num(80)

(***************************************************************************)
(* C17: for Bollinger Bands with window n and multiplier k >= 0, wherever  *)
(* upper is not NaN, upper >= middle >= lower, middle is the mean of the   *)
(* last n closes, and upper - middle = middle - lower = k * (population    *)
(* standard deviation of those n closes).  Checked on the bulk arrays over *)
(* the inputs and on the mapping the streaming update returns.             *)
(***************************************************************************)
\* population variance of the last n elements of xs: E[x^2] - E[x]^2
C17_Variance(xs, n) ==
    LET w == SubSeq(xs, Len(xs) - n + 1, Len(xs))
        m == MeanOfLast(xs, n)
    IN  Sub(Div(np_sum([j \in 1..n |-> Mul(w[j], w[j])]), Num(n)), Mul(m, m))

\* upper, middle, lower are the bands of the last n elements of xs
C17_Bands(upper, middle, lower, xs, n, k) ==
    LET m == MeanOfLast(xs, n)
        v == C17_Variance(xs, n)
    IN  /\ middle = m
        \* upper = m + k * sqrt(v), lower = m - k * sqrt(v)
        /\ upper[2] = m /\ upper[3] = k /\ upper[4] = v
        /\ lower[2] = m /\ lower[3] = Neg(k) /\ lower[4] = v
        \* upper - middle >= 0 >= lower - middle
        /\ SurdSign(SubSurd(Zero, SubSurd(middle, upper))) >= 0
        /\ SurdSign(SubSurd(Zero, SubSurd(middle, lower))) <= 0

C17_BollingerBands ==
    (cls = "rust.BBandsStreaming" /\ lastOp = "update") =>
        LET n == ind.window
            k == params.std_dev
            b == bollinger_bands_numba(inputs, n, k)
        IN  /\ \A i \in 1..Len(inputs) :
                  ~IsNaN(b[1][i]) =>
                      C17_Bands(b[1][i], b[2][i], b[3][i], SubSeq(inputs, 1, i), n, k)
            /\ ~IsNaN(ret.upper) =>
                  C17_Bands(ret.upper, ret.middle, ret.lower, inputs, n, k)

\* window 2 over closes 1, 3 with k = 2: mean 2, variance 1, bands 4, 2, 0;
\* upper is strictly above and lower strictly below the middle
C17_Witness ==
    /\ cls = "rust.BBandsStreaming" /\ lastOp = "update"
    /\ ind.window = 2 /\ params.std_dev = Num(2)
    /\ inputs = <<Num(3), Num(1), Num(3)>>
    /\ ret = [upper |-> <<"surd", Num(2), Num(2), Num(1)>>,
              middle |-> Num(2),
              lower |-> <<"surd", Num(2), Num(-2), Num(1)>>]
    /\ bollinger_bands_numba(inputs, 2, Num(2))[1][3] = ret.upper
    /\ SurdSign(SubSurd(Zero, SubSurd(ret.middle, ret.upper))) = 1
    /\ SurdSign(SubSurd(Zero, SubSurd(ret.middle, ret.lower))) = -1

(***************************************************************************)
(* C18: over bars with high >= low, wherever all three bands are defined,  *)
(* the Donchian channel with window n and the default (EMA + ATR) Keltner  *)
(* channel with multiplier k >= 0 have upper >= middle >= lower; the       *)
(* Donchian upper is the maximum high and the lower the minimum low of the *)
(* last n bars, and the middle is (upper + lower) / 2.  Checked on the     *)
(* bulk arrays over the inputs and on the mapping the update returns.      *)
(***************************************************************************)
Highs(bars) == [i \in 1..Len(bars) |-> bars[i].high]

Lows(bars) == [i \in 1..Len(bars) |-> bars[i].low]

Closes(bars) == [i \in 1..Len(bars) |-> bars[i].close]

C18_Ordered(upper, middle, lower) ==
    (~IsNaN(upper) /\ ~IsNaN(middle) /\ ~IsNaN(lower)) =>
        (Le(lower, middle) /\ Le(middle, upper))

\* upper, middle, lower are the Donchian bands of the last n of the bars
C18_DonchianBands(upper, middle, lower, bars, n) ==
    LET last == SubSeq(bars, Len(bars) - n + 1, Len(bars))
    IN  /\ \E j \in 1..n : upper = last[j].high
        /\ \A j \in 1..n : Le(last[j].high, upper)
        /\ \E j \in 1..n : lower = last[j].low
        /\ \A j \in 1..n : Le(lower, last[j].low)
        /\ Mul(middle, Num(2)) = Add(upper, lower)

C18_ChannelOrdering ==
    /\ (cls = "rust.DonchianChannelStreaming" /\ lastOp = "update") =>
          LET n == ind.window
              b == donchian_channel_numba(Highs(inputs), Lows(inputs), n)
          IN  /\ \A i \in 1..Len(inputs) :
                    /\ C18_Ordered(b[1][i], b[2][i], b[3][i])
                    /\ ~IsNaN(b[1][i]) =>
                          C18_DonchianBands(b[1][i], b[2][i], b[3][i],
                                            SubSeq(inputs, 1, i), n)
              /\ C18_Ordered(ret.upper, ret.middle, ret.lower)
              /\ ~IsNaN(ret.upper) =>
                    C18_DonchianBands(ret.upper, ret.middle, ret.lower, inputs, n)
    /\ (cls = "rust.KeltnerChannelStreaming" /\ lastOp = "update") =>
          LET b == keltner_channel_numba(Highs(inputs), Lows(inputs), Closes(inputs),
                                         ind.window, params.atr_period,
                                         params.multiplier, FALSE)
          IN  /\ \A i \in 1..Len(inputs) : C18_Ordered(b[1][i], b[2][i], b[3][i])
              /\ C18_Ordered(ret.upper, ret.middle, ret.lower)

\* Donchian, window 2, bars (2,1), (3,2), (1,1): bands 3, 2, 1 over the last
\* two bars, with the upper band strictly above the lower one
C18_Witness ==
    /\ cls = "rust.DonchianChannelStreaming" /\ lastOp = "update"
    /\ ind.window = 2
    /\ inputs = << [high |-> Num(2), low |-> Num(1)],
                   [high |-> Num(3), low |-> Num(2)],
                   [high |-> Num(1), low |-> Num(1)] >>
    /\ ret = [upper |-> Num(3), middle |-> Num(2), lower |-> Num(1)]
    /\ donchian_channel_numba(Highs(inputs), Lows(inputs), 2)[1] = <<NaN, Num(3), Num(3)>>

\* Keltner, EMA window 2, ATR period 2, k = 2: all three bands defined and
\* strictly ordered, streaming and bulk agreeing
C18_WitnessKeltner ==
    /\ cls = "rust.KeltnerChannelStreaming" /\ lastOp = "update"
    /\ ind.window = 2 /\ params.atr_period = 2 /\ params.multiplier = Num(2)
    /\ nUpdates = 3
    /\ ~IsNaN(ret.upper) /\ Lt(ret.lower, ret.middle) /\ Lt(ret.middle, ret.upper)
    /\ LET b == keltner_channel_numba(Highs(inputs), Lows(inputs), Closes(inputs),
                                      2, 2, Num(2), FALSE)
       IN  b[1][3] = ret.upper /\ b[2][3] = ret.middle /\ b[3][3] = ret.lower

(***************************************************************************)
(* C19: every bulk function returns arrays as long as its input;           *)
(* rolling_zscore_numba, linear_regression_slope_numba,                    *)
(* rolling_percentile_numba, bollinger_bands_numba and                     *)
(* donchian_channel_numba are NaN at every index below window-1 and        *)
(* defined from index window-1 on, and daily_return_numba is NaN at index  *)
(* 0.  (Index i of an array is element i + 1 of its sequence.)  The        *)
(* statement names no window: it is taken at the window of the instance    *)
(* fed the same closes and at window 0.                                    *)
(***************************************************************************)
C19_Raised(r) ==
    \/ r = Raises("ZeroDivisionError")
    \/ r = Raises("ValueError")
    \/ r = Raises("IndexError")

\* r is an array as long as xs, NaN below index w-1 and defined from there on
C19_Aligned(r, xs, w) ==
    /\ ~C19_Raised(r)
    /\ Len(r) = Len(xs)
    /\ \A i \in 1..Len(r) : IsNaN(r[i]) <=> i < w

\* r is three such arrays
C19_AlignedBands(r, xs, w) ==
    /\ ~C19_Raised(r)
    /\ \A b \in 1..3 : C19_Aligned(r[b], xs, w)

C19_AllNaN(r, xs) ==
    /\ ~C19_Raised(r)
    /\ Len(r) = Len(xs)
    /\ \A i \in 1..Len(r) : IsNaN(r[i])

\* closes that are not all finite, for the functions fed plain closes whose
\* result is NaN wherever the window holds a NaN
C19_NotFinite ==
    /\ cls \in {"RollingZScoreStreaming", "rust.BBandsStreaming"}
    /\ \E i \in 1..Len(inputs) : ~IsFinite(inputs[i])

\* the four windowed functions other than the regression slope, at window w
C19_Windowed(w) ==
    /\ cls = "RollingZScoreStreaming" =>
          C19_Aligned(rolling_zscore_numba(inputs, w), inputs, w)
    /\ cls = "RollingPercentileStreaming" =>
          C19_Aligned(rolling_percentile_numba(inputs, w), inputs, w)
    /\ cls = "rust.BBandsStreaming" =>
          C19_AlignedBands(bollinger_bands_numba(inputs, w, params.std_dev), inputs, w)
    /\ cls = "rust.DonchianChannelStreaming" =>
          C19_AlignedBands(donchian_channel_numba(Highs(inputs), Lows(inputs), w),
                           inputs, w)

\* the functions whose alignment does not depend on a window
C19_Lengths ==
    /\ cls = "rust.KeltnerChannelStreaming" =>
          \A b \in 1..3 :
              Len(keltner_channel_numba(Highs(inputs), Lows(inputs), Closes(inputs),
                      ind.window, params.atr_period, params.multiplier, FALSE)[b])
                  = Len(inputs)
    /\ cls = "DailyReturnStreaming" =>
          /\ Len(daily_return_numba(inputs)) = Len(inputs)
          /\ inputs # <<>> => IsNaN(daily_return_numba(inputs)[1])
    /\ cls = "DailyLogReturnStreaming" =>
          Len(daily_log_return_numba(inputs)) = Len(inputs)
    /\ cls = "CumulativeReturnStreaming" =>
          Len(cumulative_return_numba(inputs)) = Len(inputs)
    /\ cls = "CompoundLogReturnStreaming" =>
          Len(compound_log_return_numba(inputs)) = Len(inputs)

C19_Witness ==
    /\ cls = "RollingZScoreStreaming" /\ ind.window = 3
    /\ inputs = <<Num(1), Num(3), Num(0), Num(3)>>
    /\ LET z == rolling_zscore_numba(inputs, 3)
       IN  /\ Len(z) = 4 /\ IsNaN(z[1]) /\ IsNaN(z[2])
           /\ ~IsNaN(z[3]) /\ ~IsNaN(z[4])

C19_WitnessWindowZero ==
    /\ cls = "RollingPercentileStreaming"
    /\ inputs = <<Num(1), Num(2)>>
    /\ rolling_percentile_numba(inputs, 0) = Raises("ZeroDivisionError")
    /\ rolling_percentile_numba(inputs, 1) = <<Num(1), Num(1)>>

\* window 0 on no close at all, in a build that checks bounds: the read of
\* data[-1] raises before the division is reached
C19_WitnessEmpty ==
    /\ cls = "RollingPercentileStreaming" /\ lastOp = "init"
    /\ inputs = <<>> /\ params.out_of_bounds = "IndexError"
    /\ rolling_percentile_numba(inputs, 0) = Raises("IndexError")

(***************************************************************************)
(* C20: the update of every wrapper returns, on every call, warm-up calls  *)
(* included, a mapping with the fixed set of keys of its class, and after  *)
(* the call current_value is the value under the first (primary) key of    *)
(* that mapping; current_value is NaN before the first update and after    *)
(* reset.                                                                  *)
(***************************************************************************)
\* the keys of the mapping a wrapper returns, the primary key first
C20_Keys(c) ==
    CASE c = "rust.SMAStreaming" -> <<"sma">>
      [] c = "rust.DailyReturnStreaming" -> <<"dr">>
      [] c = "rust.RSIStreaming" -> <<"rsi">>
      [] c = "rust.EMAStreaming" -> <<"ema">>
      [] c = "rust.CompoundLogReturnStreaming" -> <<"clr">>
      [] c = "rust.MACDStreaming" -> <<"macd", "signal", "histogram">>
      [] c \in {"rust.BBandsStreaming", "rust.KeltnerChannelStreaming",
                "rust.DonchianChannelStreaming"} -> <<"upper", "middle", "lower">>

C20_FixedKeysAndPrimary ==
    cls \in RustClasses =>
        /\ lastOp = "update" =>
              /\ DOMAIN ret = {C20_Keys(cls)[i] : i \in 1..Len(C20_Keys(cls))}
              /\ ind.current_value = ret[C20_Keys(cls)[1]]
        /\ lastOp \in {"init", "reset"} => IsNaN(ind.current_value)

\* MACD past its warm-up: three keys, all defined, macd and histogram
\* differing, current_value the macd line; its first update returned NaN
\* under the same keys
C20_Witness ==
    /\ cls = "rust.MACDStreaming" /\ lastOp = "update"
    /\ DOMAIN ret = {"macd", "signal", "histogram"}
    /\ ~IsNaN(ret.macd) /\ ~IsNaN(ret.signal) /\ ret.histogram # ret.macd
    /\ ind.current_value = ret.macd
    /\ ind.window = 3
    /\ LET first == Rust_MACDStreaming_update(Construct(cls, 3), inputs[1]).ret
       IN  DOMAIN first = DOMAIN ret /\ IsNaN(first.macd)

\* current_value back to NaN by a reset after a defined upper band
C20_WitnessReset ==
    /\ cls = "rust.BBandsStreaming" /\ lastOp = "reset" /\ ticks >= 1
    /\ ~IsNaN(ret.upper) /\ IsNaN(ind.current_value)

(***************************************************************************)
(* C21: for the wrappers, is_ready follows the warm-up count and not the   *)
(* latest output: once a wrapper is ready, it is ready after every later   *)
(* update until reset, also when that update returns NaN.                  *)
(***************************************************************************)
C21_ReadyUntilReset ==
    [][(cls \in RustClasses /\ ind.is_ready /\ lastOp' = "update")
          => ind'.is_ready]_vars

(***************************************************************************)
(* C22: when the outputs of the members of a strategy are merged into one  *)
(* flat mapping, no member's value is replaced by another's: after an      *)
(* update, every key of every member's output mapping holds, in the merged *)
(* mapping, the value that member returned.                                *)
(***************************************************************************)
C22_NoOverwrite ==
    [][lastOp' = "update" =>
          \A i \in 1..Len(params.members) :
              LET c == params.members[i]
                  out == MemberUpdate(c, ind.indicators[c], inputs'[Len(inputs')]).ret
              IN  \A key \in DOMAIN out : ret'[key] = out[key]]_vars

(***************************************************************************)
(* Construction with any requested window, the non-positive ones included. *)
(* The two windowed classes below take the window straight into            *)
(* StreamingIndicator.__init__ and, for RollingReturnStreaming, into       *)
(* deque(maxlen=window): a negative maxlen raises ValueError, a maxlen of  *)
(* 0 builds an empty deque that drops every append.                        *)
(***************************************************************************)
MinWindow == 0 - 1

CtorClasses == {"RollingReturnStreaming", "LinearRegressionSlopeStreaming"}

\* deque(maxlen=window) raises ValueError on a negative maxlen
deque_raises(maxlen) == maxlen < 0

\* __init__(window): the exception it raises, or "" when the instance is built
Ctor_raises(c, window) == IF deque_raises(window) THEN "ValueError" ELSE ""

\* RollingReturnStreaming.update on an empty close_buffer that passes the
\* length test (window = 0): close_buffer[0] raises IndexError after
\* update_count was incremented
RollingReturnStreaming_update_raises(s, close) ==
    LET buf == deque_append(s.close_buffer, close, s.window)
    IN  Len(buf) >= s.window /\ Len(buf) = 0

Update_raises(c, s, x) ==
    c = "RollingReturnStreaming" /\ RollingReturnStreaming_update_raises(s, x)

InitCtor ==
    /\ cls \in CtorClasses
    /\ \E w \in MinWindow..MaxWindow :
          /\ params = [window |-> w, raised |-> Ctor_raises(cls, w)]
          /\ ind = IF Ctor_raises(cls, w) = "" THEN Construct(cls, w)
                   ELSE StreamingIndicator_init(w)
    /\ ret = NaN
    /\ inputs = <<>>
    /\ resets = 0
    /\ ticks = 0
    /\ lastOp = "init"

\* update on an instance that was built, returning normally
Ctor_update_call ==
    /\ params.raised = ""
    /\ lastOp # "update_raised"
    /\ ticks < MaxTicks
    /\ \E x \in InputsOf(cls) :
          /\ ~Update_raises(cls, ind, x)
          /\ ind' = Step(cls, ind, x)
          /\ ret' = ind'.current_value
          /\ Called(x)

\* update on an instance that was built, raising IndexError
Ctor_update_raises_call ==
    /\ params.raised = ""
    /\ lastOp # "update_raised"
    /\ ticks < MaxTicks
    /\ \E x \in InputsOf(cls) :
          /\ Update_raises(cls, ind, x)
          /\ ind' = [ind EXCEPT !.update_count = ind.update_count + 1]
          /\ inputs' = Append(inputs, x)
          /\ ticks' = ticks + 1
          /\ lastOp' = "update_raised"
          /\ UNCHANGED <<cls, ret, resets, params>>

NextCtor ==
    \/ Ctor_update_call
    \/ Ctor_update_raises_call

SpecCtor == InitCtor /\ [][NextCtor]_vars

(***************************************************************************)
(* C23: a windowed indicator requested with a non-positive window is never *)
(* built, its constructor raising, and no update call raises in its place. *)
(***************************************************************************)
C23_FailsAtConstruction ==
    /\ (params.window <= 0 => params.raised # "")
    /\ lastOp # "update_raised"

\* the window-0 instance exists and its first update raised
C23_Deferred ==
    /\ cls = "RollingReturnStreaming" /\ params.window = 0 /\ params.raised = ""
    /\ lastOp = "update_raised" /\ ind.update_count = 1

(***************************************************************************)
(* Two instances side by side.  An attribute of a Python instance that     *)
(* holds a mutable object holds a reference to it: two instances share     *)
(* state when attributes of both refer to one object, as they would if the *)
(* object were made once (a class attribute, a module variable, a mutable  *)
(* default argument) and not in __init__.  Here the objects live on a      *)
(* heap, a sequence of records [kind, value] whose indices are the         *)
(* references, and the attribute close_buffer of a RollingReturnStreaming  *)
(* and _inner of an SMAStreaming wrapper hold references.  The fields of   *)
(* the absent base class are values of the instance, as the specification  *)
(* has it (each instance owns its state exclusively).  cls, ret and inputs *)
(* are pairs here, and ind is [heap, obj]: obj[i] is instance i, inputs[i] *)
(* the calls made on it and ret[i] the values its updates returned.        *)
(***************************************************************************)
PairClasses == {"RollingReturnStreaming", "rust.SMAStreaming"}

PairWindows == {2}

PairInputs == {Num(1), Num(3)}

\* a new object on the heap: the heap with the object and its reference
Heap_new(heap, kind, value) ==
    [heap |-> Append(heap, [kind |-> kind, value |-> value]), ref |-> Len(heap) + 1]

\* a mutation: close_buffer made once for the class, so that every instance
\* built after the first refers to the deque of the first
Mut_RollingReturnStreaming_new(heap, window) ==
    LET made == {r \in 1..Len(heap) : heap[r].kind = "deque"}
        a == IF made = {} THEN Heap_new(heap, "deque", <<>>)
             ELSE [heap |-> heap, ref |-> CHOOSE r \in made : TRUE]
    IN  [heap |-> a.heap,
         self |-> [RollingReturnStreaming_init(window) EXCEPT !.close_buffer = a.ref]]

\* RollingReturnStreaming.__init__: self.close_buffer = deque(maxlen=window)
\* makes a new deque at every call
RollingReturnStreaming_new(heap, window) ==
    LET a == Heap_new(heap, "deque", <<>>)
    IN  [heap |-> a.heap,
         self |-> [RollingReturnStreaming_init(window) EXCEPT !.close_buffer = a.ref]]

\* SMAStreaming.__init__ of the wrapper: self._inner = _rs.SMAStreaming(window)
\* makes a new compiled object at every call
Rust_SMAStreaming_new(heap, window) ==
    LET fresh == Rust_SMAStreaming_init(window)
        a == Heap_new(heap, "_rs.SMAStreaming", fresh.inner)
    IN  [heap |-> a.heap, self |-> [fresh EXCEPT !.inner = a.ref]]

\* the constructor by class
Instance_new(c, heap, w) ==
    IF c = "rust.SMAStreaming" THEN Rust_SMAStreaming_new(heap, w)
    ELSE RollingReturnStreaming_new(heap, w)

\* the attribute that holds a reference, by class
RefField(c) == IF c = "rust.SMAStreaming" THEN "inner" ELSE "close_buffer"

\* instance i as its methods see it: the object it refers to in the place of
\* the reference
Pair_view(classes, st, i) ==
    [st.obj[i] EXCEPT ![RefField(classes[i])] =
                          st.heap[st.obj[i][RefField(classes[i])]].value]

\* instance.update(x) by class: the new state and the returned value
Instance_update(c, s, x) ==
    IF c = "rust.SMAStreaming" THEN Rust_SMAStreaming_update(s, x)
    ELSE [self |-> Step(c, s, x), ret |-> Step(c, s, x).current_value]

\* instance.reset() by class
Instance_reset(c, s) ==
    IF c = "rust.SMAStreaming" THEN Rust_SMAStreaming_reset(s)
    ELSE StreamingIndicator_reset(s)

\* the heap and the instances after a method of instance i has left it as
\* after: the object self refers to is changed in place, and the other
\* attributes are assigned on self
Pair_assign(classes, st, i, after) ==
    LET f == RefField(classes[i])
        ref == st.obj[i][f]
    IN  [heap |-> [st.heap EXCEPT ![ref].value = after[f]],
         obj |-> [st.obj EXCEPT ![i] = [after EXCEPT ![f] = ref]]]

\* obj[i].update(x)
Pair_update(classes, st, i, x) ==
    LET r == Instance_update(classes[i], Pair_view(classes, st, i), x)
    IN  [self |-> Pair_assign(classes, st, i, r.self), ret |-> r.ret]

\* obj[i].reset()
Pair_reset(classes, st, i) ==
    Pair_assign(classes, st, i, Instance_reset(classes[i], Pair_view(classes, st, i)))

InitPair ==
    /\ cls \in PairClasses \X PairClasses
    /\ params \in {[window |-> ws] : ws \in PairWindows \X PairWindows}
    /\ LET first == Instance_new(cls[1], <<>>, params.window[1])
           second == Instance_new(cls[2], first.heap, params.window[2])
       IN  ind = [heap |-> second.heap, obj |-> <<first.self, second.self>>]
    /\ ret = <<<<>>, <<>>>>
    /\ inputs = <<<<>>, <<>>>>
    /\ resets = 0
    /\ ticks = 0
    /\ lastOp = "init"

Pair_update_call ==
    /\ ticks < MaxTicks
    /\ \E i \in 1..2, x \in PairInputs :
          LET r == Pair_update(cls, ind, i, x)
          IN  /\ ind' = r.self
              /\ ret' = [ret EXCEPT ![i] = Append(ret[i], r.ret)]
              /\ inputs' = [inputs EXCEPT ![i] = Append(inputs[i], [op |-> "update", x |-> x])]
    /\ ticks' = ticks + 1
    /\ lastOp' = "update"
    /\ UNCHANGED <<cls, resets, params>>

Pair_reset_call ==
    /\ resets < MaxResets
    /\ \E i \in 1..2 :
          /\ ind' = Pair_reset(cls, ind, i)
          /\ inputs' = [inputs EXCEPT ![i] = Append(inputs[i], [op |-> "reset", x |-> NaN])]
    /\ resets' = resets + 1
    /\ lastOp' = "reset"
    /\ UNCHANGED <<cls, ret, ticks, params>>

NextPair ==
    \/ Pair_update_call
    \/ Pair_reset_call

SpecPair == InitPair /\ [][NextPair]_vars

\* an instance of class c and window w that is the only instance, given the
\* calls ops: its state and the values its updates returned
RECURSIVE Alone(_, _, _)
Alone(c, w, ops) ==
    IF ops = <<>> THEN [self |-> Construct(c, w), outs |-> <<>>]
    ELSE LET before == Alone(c, w, SubSeq(ops, 1, Len(ops) - 1))
             call == ops[Len(ops)]
         IN  IF call.op = "reset"
             THEN [self |-> Instance_reset(c, before.self), outs |-> before.outs]
             ELSE LET r == Instance_update(c, before.self, call.x)
                  IN  [self |-> r.self, outs |-> Append(before.outs, r.ret)]

(***************************************************************************)
(* C24: instances share no state.  A call on one of two instances leaves   *)
(* the state and the outputs of the other as they were, and after any      *)
(* interleaving of updates and resets each instance has the state and the  *)
(* output sequence it would have as the only instance given its own calls. *)
(* The state of an instance is what its methods see: its attributes and    *)
(* the objects they refer to.                                              *)
(***************************************************************************)
C24_NoSharedState ==
    [][\A i \in 1..2 :
          /\ inputs'[i] = inputs[i] =>
                (Pair_view(cls, ind', i) = Pair_view(cls, ind, i) /\ ret'[i] = ret[i])
          /\ LET a == Alone(cls[i], params.window[i], inputs'[i])
             IN  Pair_view(cls, ind', i) = a.self /\ ret'[i] = a.outs]_vars

\* two rolling returns of window 2 updated in turn with different closes:
\* instance 1 saw 1, 3 (200 per cent), instance 2 saw 3, 1 and was reset
\* in between; each refers to a deque of its own
C24_Witness ==
    /\ cls = <<"RollingReturnStreaming", "RollingReturnStreaming">>
    /\ params.window = <<2, 2>>
    /\ Len(inputs[1]) = 2 /\ Len(inputs[2]) = 3
    /\ inputs[2][2].op = "reset"
    /\ ret[1] = <<NaN, Num(200)>>
    /\ ind.obj[1].close_buffer # ind.obj[2].close_buffer
    /\ Pair_view(cls, ind, 1).close_buffer = <<Num(1), Num(3)>>
    /\ Pair_view(cls, ind, 2).close_buffer = <<Num(3), Num(1)>>
    /\ ind.obj[2].update_count = 1

\* an SMA wrapper and a rolling return fed the same two values
C24_WitnessMixed ==
    /\ cls = <<"rust.SMAStreaming", "RollingReturnStreaming">>
    /\ params.window = <<2, 2>>
    /\ Len(ret[1]) = 2 /\ Len(ret[2]) = 2
    /\ ret[1][2].sma = Num(2) /\ ret[2][2] = Num(200)

(***************************************************************************)
(* C25: the close buffer of RollingReturnStreaming, MaxDrawdownStreaming   *)
(* and CalmarRatioStreaming and the returns buffer of VolatilityStreaming  *)
(* and SharpeRatioStreaming never hold more than window elements; they     *)
(* hold the elements pushed since construction, and once window or more    *)
(* were pushed exactly the last window of them, oldest first.              *)
(***************************************************************************)
\* the last min(Len(xs), w) elements of xs
C25_LastUpTo(xs, w) ==
    IF Len(xs) <= w THEN xs ELSE SubSeq(xs, Len(xs) - w + 1, Len(xs))

\* the log returns pushed while closes xs arrived: one per tick from the
\* second on whose close and previous close are both positive
RECURSIVE C25_PushedReturns(_)
C25_PushedReturns(xs) ==
    IF Len(xs) < 2 THEN <<>>
    ELSE LET n == Len(xs)
             earlier == C25_PushedReturns(SubSeq(xs, 1, n - 1))
         IN  IF Gt(xs[n - 1], Zero) /\ Gt(xs[n], Zero)
             THEN Append(earlier, np_log(Div(xs[n], xs[n - 1])))
             ELSE earlier

C25_BoundedBuffers ==
    /\ cls \in {"RollingReturnStreaming", "MaxDrawdownStreaming", "CalmarRatioStreaming"} =>
          /\ Len(ind.close_buffer) <= ind.window
          /\ resets = 0 => ind.close_buffer = C25_LastUpTo(inputs, ind.window)
    /\ cls \in {"VolatilityStreaming", "SharpeRatioStreaming"} =>
          /\ Len(ind.returns_buffer) <= ind.window
          /\ resets = 0 =>
                ind.returns_buffer = C25_LastUpTo(C25_PushedReturns(inputs), ind.window)

\* three returns pushed into a returns buffer of capacity 2: the first is gone
C25_Witness ==
    /\ cls = "VolatilityStreaming" /\ FreshRun /\ ind.window = 2
    /\ inputs = <<Num(1), Num(2), Num(3), Num(1)>>
    /\ ind.returns_buffer = <<np_log(Div(Num(3), Num(2))), np_log(Div(Num(1), Num(3)))>>

\* four closes pushed into a close buffer of capacity 3
C25_WitnessClose ==
    /\ cls = "MaxDrawdownStreaming" /\ FreshRun /\ ind.window = 3
    /\ inputs = <<Num(3), Num(1), Num(2), Num(0)>>
    /\ ind.close_buffer = <<Num(1), Num(2), Num(0)>>

(***************************************************************************)
(* C26: every non-NaN output of the wrapper EMAStreaming lies between the  *)
(* minimum and the maximum of the inputs seen since construction or reset, *)
(* and EMAStreaming(window=3) fed two distinct values returns on the       *)
(* second update a value strictly between them.                            *)
(***************************************************************************)
C26_EMABetweenInputs ==
    (cls = "rust.EMAStreaming" /\ lastOp = "update") =>
        /\ ~IsNaN(ret.ema) =>
              /\ \E i \in 1..nUpdates : Le(inputs[i], ret.ema)
              /\ \E i \in 1..nUpdates : Le(ret.ema, inputs[i])
        /\ (ind.window = 3 /\ nUpdates = 2 /\ inputs[1] # inputs[2]) =>
              \/ Lt(inputs[1], ret.ema) /\ Lt(ret.ema, inputs[2])
              \/ Lt(inputs[2], ret.ema) /\ Lt(ret.ema, inputs[1])

\* window 3 fed 10 then 20 returns 15
C26_Witness ==
    /\ cls = "rust.EMAStreaming" /\ lastOp = "update"
    /\ ind.window = 3 /\ inputs = <<Num(10), Num(20)>>
    /\ ret.ema = Num(15)

\* after a reset the earlier inputs no longer bound the output
C26_WitnessReset ==
    /\ cls = "rust.EMAStreaming" /\ lastOp = "update" /\ resets = 1
    /\ ind.window = 2 /\ ticks = 4 /\ inputs = <<Num(10), Num(20)>>
    /\ Lt(Num(10), ret.ema) /\ Lt(ret.ema, Num(20))

(***************************************************************************)
(* The loops of one update call of a class of streaming/others.py: the set *)
(* of their iteration counts.  The only loop statement of the file is      *)
(* `for j in range(self.window)` of LinearRegressionSlopeStreaming; every  *)
(* other loop is a numpy pass (np.array, np.sum, np.mean, np.std, np.min,  *)
(* np.maximum.accumulate, a comparison) over the array made of a buffer,   *)
(* which runs once per element.  Each count is fixed before the loop       *)
(* starts; there is no while statement and no recursion.                   *)
(***************************************************************************)
update_loops(c, s, x) ==
    LET after == Step(c, s, x)
    IN  CASE c \in {"RollingZScoreStreaming", "RollingPercentileStreaming"} ->
                IF Len(after.buffer) >= after.window THEN {Len(after.buffer)} ELSE {}
          [] c = "LinearRegressionSlopeStreaming" ->
                IF Len(after.buffer) >= after.window /\ Neq(after.denom, Zero)
                THEN {Len(after.buffer), after.window} ELSE {}
          [] c \in {"VolatilityStreaming", "SharpeRatioStreaming"} ->
                IF /\ after.update_count > 1
                   /\ Gt(s.prev_close, Zero) /\ Gt(x, Zero)
                   /\ Len(after.returns_buffer) >= after.window
                THEN {Len(after.returns_buffer)} ELSE {}
          [] c = "MaxDrawdownStreaming" ->
                IF Len(after.close_buffer) >= 2 THEN {Len(after.close_buffer)} ELSE {}
          [] c = "CalmarRatioStreaming" ->
                IF Len(after.close_buffer) >= after.window
                THEN {Len(after.close_buffer)} ELSE {}
          [] OTHER -> {}

(***************************************************************************)
(* C27: every update of a class of streaming/others.py terminates: it      *)
(* reaches its return with a new state, and every loop it runs executes at *)
(* most window iterations.                                                 *)
(***************************************************************************)
C27_LoopsBoundedByWindow ==
    [][(cls \in PyClasses /\ lastOp' = "update") =>
          /\ ind' = Step(cls, ind, inputs'[Len(inputs')])
          /\ \A n \in update_loops(cls, ind, inputs'[Len(inputs')]) : n <= ind.window]_vars

\* a full window: the slope scans its 3 buffered values, the loop runs 3 times
C27_Witness ==
    /\ cls = "LinearRegressionSlopeStreaming" /\ lastOp = "update"
    /\ ind.window = 3 /\ ind.update_count = 4 /\ ind.is_ready
    /\ update_loops(cls, ind, Num(1)) = {3}

\* a drawdown over a buffer that has already evicted a close
C27_WitnessDrawdown ==
    /\ cls = "MaxDrawdownStreaming" /\ lastOp = "update"
    /\ ind.window = 2 /\ ind.update_count = 3
    /\ update_loops(cls, ind, Num(1)) = {2}

(***************************************************************************)
(* C28: for every class of streaming/others.py is_ready is monotone        *)
(* between resets: an update of a ready instance leaves it ready, whatever *)
(* the input.                                                              *)
(***************************************************************************)
C28_ReadyMonotone ==
    [][(cls \in PyClasses /\ ind.is_ready /\ lastOp' = "update") => ind'.is_ready]_vars

\* a Sharpe ratio that became ready on 1, 2, 3 and is still ready after a
\* close of 0, which has no log return
C28_Witness ==
    /\ cls = "SharpeRatioStreaming" /\ FreshRun /\ ind.window = 2
    /\ inputs = <<Num(1), Num(2), Num(3), Num(0)>>
    /\ RunFresh(cls, 2, SubSeq(inputs, 1, 3)).is_ready
    /\ ind.is_ready

\* a daily return that stays ready over a repeated and a zero close
C28_WitnessDaily ==
    /\ cls = "DailyReturnStreaming" /\ FreshRun
    /\ inputs = <<Num(2), Num(2), Num(0), Num(0)>>
    /\ RunFresh(cls, 1, SubSeq(inputs, 1, 2)).is_ready
    /\ ind.is_ready

(***************************************************************************)
(* C29: on a tick whose close or previous close is <= 0, so that it has no *)
(* log return, VolatilityStreaming and SharpeRatioStreaming leave the      *)
(* returns buffer, current_value and is_ready unchanged and                *)
(* CompoundLogReturnStreaming leaves cumulative_log_return unchanged; only *)
(* update_count and prev_close change.                                     *)
(***************************************************************************)
C29_Classes == {"VolatilityStreaming", "SharpeRatioStreaming", "CompoundLogReturnStreaming"}

\* the update that takes ind to ind' is a tick with close or previous close <= 0
C29_BadTick ==
    /\ cls \in C29_Classes /\ lastOp' = "update"
    /\ Le(inputs'[Len(inputs')], Zero) \/ Le(ind.prev_close, Zero)

C29_BadTickSkipped ==
    [][C29_BadTick =>
          ind' = [ind EXCEPT !.update_count = ind.update_count + 1,
                             !.prev_close = inputs'[Len(inputs')]]]_vars

(***************************************************************************)
(* C29 amended: as above, except that the first update of                  *)
(* CompoundLogReturnStreaming since construction or reset also sets        *)
(* current_value to 0.0 and is_ready to true, whatever the close.          *)
(***************************************************************************)
C29_BadTickSkippedAmended ==
    [][C29_BadTick =>
          IF cls = "CompoundLogReturnStreaming" /\ ind.update_count = 0
          THEN ind' = [ind EXCEPT !.update_count = 1,
                                  !.prev_close = inputs'[Len(inputs')],
                                  !.current_value = Zero,
                                  !.is_ready = TRUE]
          ELSE ind' = [ind EXCEPT !.update_count = ind.update_count + 1,
                                  !.prev_close = inputs'[Len(inputs')]]]_vars

\* a volatility that was ready on 1, 2, 3 and then saw a close of 0: buffer,
\* output and readiness are those of the tick before
C29_Witness ==
    /\ cls = "VolatilityStreaming" /\ FreshRun /\ ind.window = 2
    /\ inputs = <<Num(1), Num(2), Num(3), Num(0)>>
    /\ LET earlier == RunFresh(cls, 2, SubSeq(inputs, 1, 3))
       IN  /\ earlier.is_ready /\ ind.is_ready
           /\ ind.returns_buffer = earlier.returns_buffer
           /\ Len(ind.returns_buffer) = 2
           /\ ind.current_value = earlier.current_value
           /\ ind.prev_close = Zero /\ ind.update_count = 4

\* the running total of the compound log return kept over a close of 0 and
\* over the tick after it
C29_WitnessCompound ==
    /\ cls = "CompoundLogReturnStreaming" /\ FreshRun
    /\ inputs = <<Num(1), Num(2), Num(0), Num(3)>>
    /\ ind.cumulative_log_return = RunFresh(cls, 1, SubSeq(inputs, 1, 2)).cumulative_log_return
    /\ ret = Num(100)

(***************************************************************************)
(* C30: after any sequence of update and reset calls, every wrapper of     *)
(* _rust_streaming.py other than CompoundLogReturnStreaming is ready if    *)
(* and only if its current_value is not NaN; the wrapper                   *)
(* CompoundLogReturnStreaming is ready after every update, whatever value  *)
(* the update returned.                                                    *)
(***************************************************************************)
C30_ReadyIffDefined ==
    cls \in RustClasses =>
        IF cls = "rust.CompoundLogReturnStreaming"
        THEN lastOp = "update" => ind.is_ready
        ELSE ind.is_ready <=> ~IsNaN(ind.current_value)

\* the first update of the compound log return wrapper returned NaN and the
\* wrapper is ready
C30_Witness ==
    /\ cls = "rust.CompoundLogReturnStreaming" /\ lastOp = "update"
    /\ nUpdates = 1 /\ IsNaN(ret.clr) /\ IsNaN(ind.current_value) /\ ind.is_ready

\* is_ready back to false on an update that returned NaN: a daily return
\* after a close of 0 following a defined return
C30_WitnessBackToFalse ==
    /\ cls = "rust.DailyReturnStreaming" /\ FreshRun
    /\ inputs = <<Num(2), Num(0), Num(0)>>
    /\ Rust_DailyReturnStreaming_update(
          Rust_DailyReturnStreaming_update(Construct(cls, 1), Num(2)).self, Num(0)).self.is_ready
    /\ IsNaN(ret.dr) /\ ~ind.is_ready

\* Bollinger bands of window 2 fed 1, 3, NaN: ready with defined bands after
\* the second close; the third leaves a NaN in the window, all three bands
\* are NaN and is_ready is back to false
C30_WitnessBBandsNaN ==
    /\ cls = "rust.BBandsStreaming" /\ FreshRun /\ ind.window = 2
    /\ inputs = <<Num(1), Num(3), NaN>>
    /\ Rust_BBandsStreaming_update(
          Rust_BBandsStreaming_update(Construct(cls, 2), Num(1)).self, Num(3)).self.is_ready
    /\ ret = [upper |-> NaN, middle |-> NaN, lower |-> NaN]
    /\ IsNaN(ind.current_value) /\ ~ind.is_ready

(***************************************************************************)
(* C31: for every class of streaming/others.py, whenever is_ready is true  *)
(* current_value is a defined number, not NaN, for every window >= 1 and   *)
(* every input sequence, zero prices included.                             *)
(***************************************************************************)
C31_ReadyImpliesDefined ==
    (cls \in PyClasses /\ ind.is_ready) => ~IsNaN(ind.current_value)

(***************************************************************************)
(* Wrapper updates whose inner call raises.  update() of every wrapper     *)
(* begins with `self._update_count += 1`, then calls                       *)
(* self._inner.update(...) and assigns _current_value and _is_ready from   *)
(* what the call returned.  The file has no try statement, so an exception *)
(* of the inner call leaves update() at the call.  Here update() is taken  *)
(* in two steps, up to the inner call and from it on, and the inner call   *)
(* either returns or raises: when the compiled method raises is not        *)
(* decided by the sources, so both outcomes are possible at every call.    *)
(* The state of the inner object is taken to be untouched by a call that   *)
(* raised.  inputs holds one record per update call since construction or  *)
(* reset: the argument, whether the call raised, and the fields of the     *)
(* wrapper before the call.                                                *)
(***************************************************************************)
RaiseClasses == {"rust.SMAStreaming", "rust.MACDStreaming"}

InitRaise ==
    /\ cls \in RaiseClasses
    /\ params \in ParamsOf(cls)
    /\ \E w \in 1..MaxWindow :
          /\ (cls = "rust.MACDStreaming" => params.fast_period < w)
          /\ ind = Construct(cls, w)
    /\ ret = NaN
    /\ inputs = <<>>
    /\ resets = 0
    /\ ticks = 0
    /\ lastOp = "init"

\* update(value) up to the call of the inner update
Raise_update_enter ==
    /\ lastOp # "update_entered"
    /\ ticks < MaxTicks
    /\ \E value \in {Num(1), Num(3)} :
          /\ ind' = IF cls = "rust.SMAStreaming" THEN Rust_SMAStreaming_update_enter(ind)
                    ELSE Rust_MACDStreaming_update_enter(ind)
          /\ inputs' = Append(inputs,
                 [value |-> value, raised |-> FALSE,
                  before |-> [update_count |-> ind.update_count,
                              current_value |-> ind.current_value,
                              is_ready |-> ind.is_ready]])
    /\ ticks' = ticks + 1
    /\ lastOp' = "update_entered"
    /\ UNCHANGED <<cls, ret, resets, params>>

\* the inner update returned: the rest of update() runs
Raise_inner_returns ==
    /\ lastOp = "update_entered"
    /\ LET value == inputs[Len(inputs)].value
           r == IF cls = "rust.SMAStreaming"
                THEN Rust_SMAStreaming_update_return(ind, value)
                ELSE Rust_MACDStreaming_update_return(ind, value)
       IN  /\ ind' = r.self
           /\ ret' = r.ret
    /\ lastOp' = "update"
    /\ UNCHANGED <<cls, inputs, resets, ticks, params>>

\* the inner update raised: the exception leaves update() where it is
Raise_inner_raises ==
    /\ lastOp = "update_entered"
    /\ inputs' = [inputs EXCEPT ![Len(inputs)].raised = TRUE]
    /\ lastOp' = "update_raised"
    /\ UNCHANGED <<cls, ind, ret, resets, ticks, params>>

Raise_reset_call ==
    /\ lastOp # "update_entered"
    /\ resets < MaxResets
    /\ ind' = IF cls = "rust.SMAStreaming" THEN Rust_SMAStreaming_reset(ind)
              ELSE Rust_MACDStreaming_reset(ind)
    /\ ResetDone

NextRaise ==
    \/ Raise_update_enter
    \/ Raise_inner_returns
    \/ Raise_inner_raises
    \/ Raise_reset_call

SpecRaise == InitRaise /\ [][NextRaise]_vars

(***************************************************************************)
(* C32: a wrapper update whose inner computation raises has incremented    *)
(* update_count and left current_value and is_ready as they were before    *)
(* the call; update_count is the number of update calls attempted since    *)
(* construction or reset, the raising ones included.                       *)
(***************************************************************************)
C32_CountsAttempts ==
    /\ lastOp = "update_raised" =>
          LET before == inputs[Len(inputs)].before
          IN  /\ ind.update_count = before.update_count + 1
              /\ ind.current_value = before.current_value
              /\ ind.is_ready = before.is_ready
    /\ ind.update_count = Len(inputs)

\* an SMA of window 2, ready with value 2 after 1, 3; the third call raised:
\* three calls counted, two completed, still ready with 2
C32_Witness ==
    /\ cls = "rust.SMAStreaming" /\ lastOp = "update_raised" /\ ind.window = 2
    /\ Len(inputs) = 3 /\ ~inputs[1].raised /\ ~inputs[2].raised /\ inputs[3].raised
    /\ inputs[1].value = Num(1) /\ inputs[2].value = Num(3)
    /\ ind.update_count = 3
    /\ ind.is_ready /\ ind.current_value = Num(2) /\ ret.sma = Num(2)

\* a MACD whose first call raised and whose second completed
C32_WitnessMACD ==
    /\ cls = "rust.MACDStreaming" /\ lastOp = "update"
    /\ Len(inputs) = 2 /\ inputs[1].raised /\ ~inputs[2].raised
    /\ ind.update_count = 2

(***************************************************************************)
(* C33: VolatilityStreaming and SharpeRatioStreaming with window w, fed    *)
(* strictly positive closes, are not ready after each of the updates 1..w  *)
(* and ready after update w + 1; in general they are ready exactly when w  *)
(* log returns have been pushed, and a tick with a non-positive close or   *)
(* previous close pushes none.                                             *)
(***************************************************************************)
C33_ReadyAfterWindowReturns ==
    (cls \in {"VolatilityStreaming", "SharpeRatioStreaming"} /\ FreshRun) =>
        /\ AllPositive(inputs) => (ind.is_ready <=> nUpdates >= ind.window + 1)
        /\ ind.is_ready <=> Len(C25_PushedReturns(inputs)) >= ind.window

\* window 2 over positive closes: not ready after update 2, ready after update 3
C33_Witness ==
    /\ cls = "SharpeRatioStreaming" /\ FreshRun /\ ind.window = 2
    /\ nUpdates = 3 /\ AllPositive(inputs) /\ ind.is_ready
    /\ ~RunFresh(cls, 2, SubSeq(inputs, 1, 2)).is_ready

\* a close of 0 delays readiness: window 1 is ready only at the fourth update
C33_WitnessDelayed ==
    /\ cls = "VolatilityStreaming" /\ FreshRun /\ ind.window = 1
    /\ inputs = <<Num(1), Num(0), Num(2), Num(3)>> /\ ind.is_ready
    /\ ~RunFresh(cls, 1, SubSeq(inputs, 1, 3)).is_ready

(***************************************************************************)
(* C34: MaxDrawdownStreaming fed strictly positive closes is ready from    *)
(* its second update, and every ready output is <= 0: it is 100 times the  *)
(* minimum over the buffered closes of (close - running maximum) /         *)
(* running maximum, and it is 0 if and only if the buffered closes are     *)
(* non-decreasing.                                                         *)
(***************************************************************************)
C34_NonDecreasing(xs) == \A i \in 1..(Len(xs) - 1) : Le(xs[i], xs[i + 1])

\* the largest of xs[1..i]
C34_RunningMax(xs, i) ==
    CHOOSE m \in {xs[j] : j \in 1..i} : \A j \in 1..i : Le(xs[j], m)

C34_MaxDrawdown ==
    (cls = "MaxDrawdownStreaming" /\ FreshRun /\ AllPositive(inputs)) =>
        /\ ind.is_ready <=> nUpdates >= 2
        /\ ind.is_ready =>
              LET buf == ind.close_buffer
                  dd == {Mul(Div(Sub(buf[i], C34_RunningMax(buf, i)), C34_RunningMax(buf, i)),
                             Num(100)) : i \in 1..Len(buf)}
              IN  /\ Le(ret, Zero)
                  /\ ret \in dd
                  /\ \A d \in dd : Le(ret, d)
                  /\ (ret = Zero <=> C34_NonDecreasing(buf))

\* MaxDrawdownStreaming(1) fed 1, 1: the deque of a window-1 instance never
\* holds two closes, so the second update leaves the instance not ready
C34_WindowOneNeverReady ==
    /\ cls = "MaxDrawdownStreaming" /\ FreshRun /\ ind.window = 1
    /\ inputs = <<Num(1), Num(1)>> /\ ~ind.is_ready /\ IsNaN(ret)

(***************************************************************************)
(* C35: LinearRegressionSlopeStreaming constructed with window 1 never     *)
(* becomes ready and returns NaN on every update, its denominator          *)
(* w * sum_x2 - sum_x^2 being 0, as linear_regression_slope_numba returns  *)
(* an all-NaN array for window 1; for every window >= 2 the denominator    *)
(* is strictly positive.                                                   *)
(***************************************************************************)
C35_SlopeWindowOne ==
    /\ (cls = "LinearRegressionSlopeStreaming" /\ ind.window = 1) =>
          /\ ind.denom = Zero
          /\ ~ind.is_ready
          /\ IsNaN(ret)
          /\ LET bulk == linear_regression_slope_numba(inputs, 1)
             IN  /\ Len(bulk) = Len(inputs)
                 /\ \A i \in 1..Len(bulk) : IsNaN(bulk[i])
    /\ (cls = "LinearRegressionSlopeStreaming" /\ ind.window >= 2) => Lt(Zero, ind.denom)
    /\ cls = "LinearRegressionSlopeStreaming" =>
          \A w \in 2..(4 * MaxWindow) :
              Lt(Zero, LinearRegressionSlopeStreaming_init(w).denom)

\* window 1 after three updates: not ready, NaN returned
C35_Witness ==
    /\ cls = "LinearRegressionSlopeStreaming" /\ ind.window = 1
    /\ lastOp = "update" /\ nUpdates = 3 /\ Len(inputs) = 3
    /\ ~ind.is_ready /\ IsNaN(ret) /\ ind.denom = Zero

\* window 3 has denominator 3 * 5 - 3^2 = 6 and becomes ready
C35_WitnessWindowThree ==
    /\ cls = "LinearRegressionSlopeStreaming" /\ ind.window = 3
    /\ ind.denom = Num(6) /\ ind.is_ready

(***************************************************************************)
(* C36: every ready output of RollingPercentileStreaming(w) is one of      *)
(* 1/w, 2/w, ..., 1: it is never 0, the current value being in the window  *)
(* and counting as <= itself, and it is 1 exactly when the current value   *)
(* is the maximum of the window.                                           *)
(***************************************************************************)
C36_PercentileGrid ==
    (cls = "RollingPercentileStreaming" /\ lastOp = "update" /\ ind.is_ready) =>
        LET w == ind.window
            value == inputs[Len(inputs)]
        IN  /\ ret \in {Div(Num(k), Num(w)) : k \in 1..w}
            /\ ret # Zero
            /\ Len(ind.buffer) = w /\ ind.buffer[w] = value
            /\ (ret = Num(1) <=> \A j \in 1..w : Le(ind.buffer[j], value))

\* C36 amended: a NaN compares false with every value, itself included, so
\* a ready output is 0 exactly when the current value is NaN; for any other
\* current value the claim holds.
C36_PercentileGridAmended ==
    (cls = "RollingPercentileStreaming" /\ lastOp = "update" /\ ind.is_ready) =>
        LET w == ind.window
            value == inputs[Len(inputs)]
        IN  /\ ret \in {Div(Num(k), Num(w)) : k \in 0..w}
            /\ Len(ind.buffer) = w /\ ind.buffer[w] = value
            /\ (ret = Zero <=> IsNaN(value))
            /\ (ret = Num(1) <=> \A j \in 1..w : Le(ind.buffer[j], value))

\* window 2 over 1, NaN: nothing in the window is <= NaN
C36_WitnessNaN ==
    /\ cls = "RollingPercentileStreaming" /\ ind.window = 2 /\ lastOp = "update"
    /\ ind.is_ready /\ ind.buffer = <<Num(1), NaN>> /\ ret = Zero

\* window 3 over 1, 3, 2: two of three values are <= 2
C36_Witness ==
    /\ cls = "RollingPercentileStreaming" /\ ind.window = 3 /\ lastOp = "update"
    /\ ind.is_ready /\ ind.buffer = <<Num(1), Num(3), Num(2)>>
    /\ ret = Div(Num(2), Num(3))

\* the current value is the maximum of the window: percentile 1
C36_WitnessMax ==
    /\ cls = "RollingPercentileStreaming" /\ ind.window = 2 /\ lastOp = "update"
    /\ ind.is_ready /\ ind.buffer = <<Num(1), Num(3)>> /\ ret = Num(1)

(***************************************************************************)
(* C37: in DailyReturnStreaming, DailyLogReturnStreaming,                  *)
(* CompoundLogReturnStreaming, VolatilityStreaming and                     *)
(* SharpeRatioStreaming, after every update (the first tick and the ticks  *)
(* whose return could not be computed included) prev_close equals the      *)
(* close passed to that update.                                            *)
(***************************************************************************)
C37_Classes ==
    {"DailyReturnStreaming", "DailyLogReturnStreaming", "CompoundLogReturnStreaming",
     "VolatilityStreaming", "SharpeRatioStreaming"}

C37_PrevCloseIsLastClose ==
    (cls \in C37_Classes /\ lastOp = "update") => ind.prev_close = inputs[Len(inputs)]

\* a tick with close 0 after a positive close: no return computed, prev_close 0
C37_Witness ==
    /\ cls = "DailyLogReturnStreaming" /\ lastOp = "update"
    /\ inputs = <<Num(2), Num(0)>> /\ ~ind.is_ready /\ ind.prev_close = Num(0)

\* the first tick after a reset in SharpeRatioStreaming
C37_WitnessAfterReset ==
    /\ cls = "SharpeRatioStreaming" /\ resets = 1 /\ lastOp = "update"
    /\ inputs = <<Num(3)>> /\ ind.update_count = 1 /\ ind.prev_close = Num(3)

=============================================================================
